---- MODULE Spec2Model ----
(***************************************************************************)
(* A model of the chat client of github.com/amarnathcjd/chatgpt:           *)
(*   - the conversation store and its windowing (conversations.go, Ask),   *)
(*   - the credential cache and Start / GetAccessToken (auth.go,           *)
(*     client.go),                                                         *)
(*   - the decoder of the streamed response (parseResponse, startScan),    *)
(*   - cacheAccessToken run by two clients on the shared cache file, and   *)
(*     GetAccessToken run by two callers on one Auth (auth.go).            *)
(* Each part has its own specification over the one set of variables.      *)
(***************************************************************************)
EXTENDS Integers, Sequences, FiniteSets, TLC

(***************************************************************************)
(* Bounds of the model.                                                    *)
(***************************************************************************)
\* number of Ask calls issued on one client
MaxAsks == 3

\* number of lines of a response body
MaxLines == 3

\* the last instant of the clock
MaxTime == 3
\* frames a long stream carries beyond the capacity of the channel
MaxOverflow == 2

(***************************************************************************)
(* Strings.  A Go string is modelled by its text and its byte length       *)
(* (len(s) is all the windowing heuristic reads of it).                    *)
(***************************************************************************)
Str(t, n) == [text |-> t, len |-> n]

EmptyStr == Str("", 0)

\* ask.go: const DEFAULT_INIT_MESSAGE, 86 bytes long
DEFAULT_INIT_MESSAGE == Str("You are chatGPT, trained on a very huge dataset of conversations. Act conversationally", 86)

\* Config.InitMessage values a client is constructed with: unset, one of
\* exactly 4000 tokens, and ones just over the 4000, 8000 and 32000 budgets
InitMessages ==
    { EmptyStr, Str("init16000", 16000), Str("init16004", 16004),
      Str("init32004", 32004), Str("init128004", 128004) }

Prompts == { Str("p1", 2), Str("p2", 2) }

\* the content of choices[0].message of a 200 response; GetResponse gives ""
\* when the response has no choices
Replies == { Str("r1", 2), EmptyStr }

\* AskOpts.ConversationID values ("" : none given)
ConversationIDs == { "", "A" }

(***************************************************************************)
(* conversations.go                                                        *)
(***************************************************************************)
TextDavinciEngine == "text-davinci-"
Gpt3_5Engine == "gpt-3.5-"
Gpt4_32Engine == "gpt-4-32"
Gpt4_8Engine == "gpt-4-8"

\* var Engines = map[string]int{...}
Engines ==
    (TextDavinciEngine :> 4000) @@ (Gpt3_5Engine :> 4000) @@
    (Gpt4_32Engine :> 32000) @@ (Gpt4_8Engine :> 8000)

\* engine names a client runs with, and the keys of Engines each contains
\* (strings.Contains(engine, a))
EngineNames ==
    { "gpt-3.5-turbo", "gpt-4", "gpt-4-32k", "gpt-4-8k",
      "text-davinci-002-render-sha", "gpt-4-32k-or-gpt-4-8k" }

Contains(engine, a) ==
    CASE engine = "gpt-3.5-turbo" -> a = Gpt3_5Engine
      [] engine = "gpt-4" -> FALSE
      [] engine = "gpt-4-32k" -> a = Gpt4_32Engine
      [] engine = "gpt-4-8k" -> a = Gpt4_8Engine
      [] engine = "text-davinci-002-render-sha" -> a = TextDavinciEngine
      [] engine = "gpt-4-32k-or-gpt-4-8k" -> a \in { Gpt4_32Engine, Gpt4_8Engine }
      [] OTHER -> FALSE

Message(role, content) == [Role |-> role, Content |-> content]

\* the zero Conversation{}
EmptyConversation == [InitMessage |-> EmptyStr, LastMessage |-> EmptyStr, Messages |-> <<>>]

addMessage(c, m) ==
    [c EXCEPT !.Messages = Append(c.Messages, m), !.LastMessage = m.Content]

initMessage(c, m) ==
    [c EXCEPT !.InitMessage = m.Content, !.LastMessage = m.Content,
              !.Messages = Append(c.Messages, m)]

getTokenCount(c) == c.InitMessage.len \div 4

\* getEngineTokenLimit ranges over the map Engines in the runtime's random
\* iteration order and returns the limit of the first key the engine name
\* contains: the set of the values a call may return.
getEngineTokenLimit(engine) ==
    IF \E a \in DOMAIN Engines : Contains(engine, a)
    THEN { Engines[a] : a \in { k \in DOMAIN Engines : Contains(engine, k) } }
    ELSE { 4000 }

\* tokenizeMessage collapsing to the last turn alone (the system message lost)
tokenizeMessage_dropSystem(c, maxTokens) ==
    IF getTokenCount(c) > maxTokens
    THEN [c EXCEPT !.Messages = << Message("user", c.LastMessage) >>]
    ELSE c

\* tokenizeMessage with maxTokens the value its call of getEngineTokenLimit gave
tokenizeMessage(c, maxTokens) ==
    IF getTokenCount(c) > maxTokens
    THEN [c EXCEPT !.Messages =
              << Message("system", c.InitMessage), Message("user", c.LastMessage) >>]
    ELSE c

(***************************************************************************)
(* client.go, auth.go: credentials, the cache file, the handshake.         *)
(***************************************************************************)
ApiKeyMode == 0
AccessTokenMode == 1

\* session names of the clients sharing gpt-cache.json
Sessions == { "s1", "s2" }

\* type authCache
authCache(token, expires) == [AccessToken |-> token, Expires |-> expires]

\* gpt-cache.json: absent, holding a JSON object that maps session names to
\* authCache objects, or holding no bytes (os.Create has truncated it and the
\* encoder has not written yet); data is the JSON text
NoFile == [exists |-> FALSE, valid |-> FALSE, data |-> << >>]
File(data) == [exists |-> TRUE, valid |-> TRUE, data |-> data]
Truncated == [exists |-> TRUE, valid |-> FALSE, data |-> << >>]

\* the in-memory zero time.Time{} is instant 0; the clock starts after it
ZeroTime == 0

\* json encoding of a map[string]authCache: `json:"access_token,omitempty"`
\* leaves an empty token out, time.Time is written as an RFC 3339 string
Encode(m) ==
    [k \in DOMAIN m |->
        [access_token |-> IF m[k].AccessToken = "" THEN << >> ELSE << m[k].AccessToken >>,
         expires |-> [rfc3339 |-> m[k].Expires]]]

\* json decoding into a map[string]authCache: a key that is left out keeps the
\* zero value of its field
Decode(text) ==
    [k \in DOMAIN text |->
        authCache(IF text[k].access_token = << >> THEN "" ELSE text[k].access_token[1],
                  text[k].expires.rfc3339)]

\* loadCachedAccessToken keeping the expiry it had (the decoded one dropped)
loadCachedAccessToken_keepExpiry(a, file) ==
    IF ~file.exists THEN a
    ELSE IF ~file.valid THEN a
    ELSE IF a.sessionName \in DOMAIN Decode(file.data)
         THEN [a EXCEPT !.accessToken = Decode(file.data)[a.sessionName].AccessToken]
         ELSE a

loadCachedAccessToken(a, file) ==
    IF ~file.exists THEN a
    \* Decode returned an error
    ELSE IF ~file.valid THEN a
    ELSE IF a.sessionName \in DOMAIN Decode(file.data)
         THEN [a EXCEPT !.accessToken = Decode(file.data)[a.sessionName].AccessToken,
                        !.expires = Decode(file.data)[a.sessionName].Expires]
         ELSE a

\* whether loadCachedAccessToken found an entry for the session
cacheHit(a, file) == file.exists /\ file.valid /\ a.sessionName \in DOMAIN file.data

\* the first half of cacheAccessToken: previousData after the file was read
\* (its Decode error is ignored) and the entry of the session was set
readPrevious(a, file) ==
    LET previousData == IF file.exists /\ file.valid THEN Decode(file.data) ELSE << >>
        entry == authCache(a.accessToken, a.expires)
    IN [k \in DOMAIN previousData \cup {a.sessionName} |->
           IF k = a.sessionName THEN entry ELSE previousData[k]]

\* cacheAccessToken writing the entry of its session alone
cacheAccessToken_overwrite(a, file, createOK) ==
    IF createOK
    THEN File(Encode([k \in {a.sessionName} |-> authCache(a.accessToken, a.expires)]))
    ELSE file

\* cacheAccessToken: the file it leaves; createOK is whether os.Create succeeded
cacheAccessToken(a, file, createOK) ==
    IF createOK THEN File(Encode(readPrevious(a, file))) ELSE file

checkCredentials(a) ==
    IF a.apiKey = "" /\ (a.email = "" \/ a.password = "") /\ a.accessToken = ""
    THEN "no credentials provided"
    ELSE IF (a.email # "" /\ a.password = "") \/ (a.email = "" /\ a.password # "")
         THEN "email and password must be set together"
         ELSE ""

(***************************************************************************)
(* The identity provider's answers to one handshake.                       *)
(*   one    : the discovery GET: "ok", "transport", "status", "decode"     *)
(*   two    : the four requests of stepTwo, each "transport" or a status   *)
(*            code                                                         *)
(*   hasState, echo : the Location of the authorize redirect               *)
(*   three  : the token POST: "ok", "transport", "decode"                  *)
(*   token, ttl, detail : the decoded authResp; the provider mints tokens  *)
(*            that expire ttl after the time of the exchange               *)
(***************************************************************************)
HsOK(token, ttl, detail) ==
    [one |-> "ok", state |-> "st1", two |-> << "302", "302", "302", "302" >>,
     hasState |-> TRUE, echo |-> "st1",
     three |-> "ok", token |-> token, ttl |-> ttl, detail |-> detail]

HsBase == HsOK("Th", 2, "")

Handshakes ==
    { HsBase, HsOK("Th", 1, ""), HsOK("Th", 2, "denied"), HsOK("", 2, "denied") }
    \cup { [HsBase EXCEPT !.one = x] : x \in { "transport", "status", "decode" } }
    \cup { [HsBase EXCEPT !.two[i] = x] : i \in 1..4, x \in { "transport", "400", "500" } }
    \cup { [HsBase EXCEPT !.hasState = FALSE], [HsBase EXCEPT !.echo = "other"] }
    \cup { [HsBase EXCEPT !.three = x] : x \in { "transport", "decode" } }

\* stepOne: the error it returns ("" : none); on success a.authState = state
stepOne(hs) ==
    CASE hs.one = "ok" -> ""
      [] hs.one = "transport" -> "transport"
      [] hs.one = "status" -> "bad status"
      [] OTHER -> "decode"

\* a form POST or the final GET of stepTwo answered with status
stepTwoStatus(status, isPost) ==
    IF status = "302" THEN ""
    ELSE IF isPost /\ status = "400" THEN "invalid credentials"
         ELSE "bad status url+code"

\* stepTwo: "" on success, "panic" when it crashes, the error otherwise
stepTwo(hs) ==
    \* resp.Cookies() is called before err is looked at
    IF hs.two[1] = "transport" THEN "panic"
    ELSE IF hs.two[1] # "302" THEN "bad status url"
    \* strings.Split(next_url, "state=")[1]
    ELSE IF ~hs.hasState THEN "panic"
    ELSE IF hs.two[2] = "transport" THEN "transport"
    ELSE IF stepTwoStatus(hs.two[2], TRUE) # "" THEN stepTwoStatus(hs.two[2], TRUE)
    ELSE IF hs.two[3] = "transport" THEN "transport"
    ELSE IF stepTwoStatus(hs.two[3], TRUE) # "" THEN stepTwoStatus(hs.two[3], TRUE)
    ELSE IF hs.two[4] = "transport" THEN "transport"
    ELSE stepTwoStatus(hs.two[4], FALSE)

\* stepThree: the error it returns ("" : none); Detail is decoded and returned
stepThree(hs) ==
    CASE hs.three = "ok" -> ""
      [] hs.three = "transport" -> "transport"
      [] OTHER -> "decode"

\* stepTwo sending a failed request a second time
stepTwoRequests_retry(hs) ==
    IF hs.two[1] # "302" THEN 2
    ELSE IF ~hs.hasState THEN 1
    ELSE IF hs.two[2] # "302" THEN 3
    ELSE IF hs.two[3] # "302" THEN 4
    ELSE IF hs.two[4] # "302" THEN 5
    ELSE 4

\* the number of requests stepTwo sends before it returns
stepTwoRequests(hs) ==
    IF hs.two[1] # "302" \/ ~hs.hasState THEN 1
    ELSE IF hs.two[2] # "302" THEN 2
    ELSE IF hs.two[3] # "302" THEN 3
    ELSE 4

\* current_state of stepTwo, the state the two form posts carry ("" : no form
\* was posted)
formState(hs) ==
    IF stepOne(hs) = "" /\ hs.two[1] = "302" /\ hs.hasState THEN hs.echo ELSE ""

\* GetAccessToken: the Auth, the cache file, the returned token and error,
\* whether the handshake ran, the number of requests sent, the state the form
\* posts carried and the state the token exchange carried; src tracks where
\* a.accessToken came from
GetAccessToken(a, src, file, t, hs, createOK) ==
    LET a1 == IF a.enableCache THEN loadCachedAccessToken(a, file) ELSE a
        src1 == IF a.enableCache /\ cacheHit(a, file) THEN "cache" ELSE src
        a2 == [a1 EXCEPT !.authState = hs.state]
        a3 == [a2 EXCEPT !.accessToken = hs.token, !.expires = t + hs.ttl]
        fail(aa, e, ran, n, x) ==
            [auth |-> aa, src |-> src1, file |-> file, token |-> "", err |-> e,
             ran |-> ran, reqs |-> n, formState |-> formState(hs), exchangeState |-> x,
             stored |-> FALSE]
    IN IF a1.accessToken # "" /\ a1.expires > t
       THEN [auth |-> a1, src |-> src1, file |-> file, token |-> a1.accessToken,
             err |-> "", ran |-> FALSE, reqs |-> 0, formState |-> "", exchangeState |-> "",
             stored |-> FALSE]
       ELSE IF a1.email = "" \/ a1.password = ""
       THEN [auth |-> a1, src |-> src1, file |-> file, token |-> "",
             err |-> "email and password must be set", ran |-> FALSE, reqs |-> 0,
             formState |-> "", exchangeState |-> "", stored |-> FALSE]
       ELSE IF stepOne(hs) # "" THEN fail(a1, stepOne(hs), TRUE, 1, "")
       ELSE IF stepTwo(hs) # "" THEN fail(a2, stepTwo(hs), TRUE, 1 + stepTwoRequests(hs), "")
       ELSE IF stepThree(hs) # "" THEN fail(a2, stepThree(hs), TRUE, 6, a2.authState)
       ELSE [auth |-> a3, src |-> "handshake",
             file |-> IF a3.enableCache THEN cacheAccessToken(a3, file, createOK) ELSE file,
             token |-> hs.token, err |-> "", ran |-> TRUE, reqs |-> 6,
             formState |-> formState(hs), exchangeState |-> a2.authState,
             \* the error of cacheAccessToken is dropped
             stored |-> a3.enableCache /\ createOK]

(***************************************************************************)
(* ask.go: the streamed response and its decoder.                          *)
(*                                                                         *)
(* A text is a sequence of characters.  A line of the body is a prefix and *)
(* a payload; a payload that is a JSON object is the record of the fields  *)
(* the decoder reads:                                                      *)
(*   msg     : "map" when "message" is an object, "absent" otherwise       *)
(*   id      : message.id when it is a string, "absent" otherwise          *)
(*   content : "map" when message.content is an object                     *)
(*   ctype   : content.content_type when it is a string                    *)
(*   isArr, parts : content.parts when it is an array                      *)
(*   conv    : conversation_id when it is a string, "absent" otherwise     *)
(*   detail  : the value of the "detail" key, "absent" without the key     *)
(***************************************************************************)
T_Hi == << "H", "i" >>
T_PadHi == << " ", "H", "i", " " >>
T_Space == << " " >>
T_Empty == << >>

RECURSIVE TrimLeft(_)
TrimLeft(t) == IF t # << >> /\ Head(t) = " " THEN TrimLeft(Tail(t)) ELSE t

RECURSIVE TrimRight(_)
TrimRight(t) ==
    IF t # << >> /\ t[Len(t)] = " " THEN TrimRight(SubSeq(t, 1, Len(t) - 1)) ELSE t

\* strings.TrimSpace
TrimSpace(t) == TrimRight(TrimLeft(t))

Obj(msg, id, content, ctype, isArr, parts, conv) ==
    [msg |-> msg, id |-> id, content |-> content, ctype |-> ctype,
     isArr |-> isArr, parts |-> parts, conv |-> conv, detail |-> "absent"]

\* the JSON object {}, and the payload field of a line that is not JSON
NoObj == Obj("absent", "absent", "absent", "absent", FALSE, << >>, "absent")

\* the JSON object {"detail":"rate limited"}
DetailObj == [NoObj EXCEPT !.detail = "rate limited"]

TextFrame(conv, id, text) == Obj("map", id, "map", "text", TRUE, << text >>, conv)

\* payload kinds: "empty", "text" (anything that is not JSON), "done" ([DONE]),
\* "detailLit" (text holding the characters {"detail":}), "json" (an object)
Payload(kind, obj) == [kind |-> kind, obj |-> obj]

Line(prefix, payload) == [prefix |-> prefix, payload |-> payload]

L_blank == Line("", Payload("empty", NoObj))
L_event == Line("event: ", Payload("text", NoObj))
L_done == Line("data: ", Payload("done", NoObj))
L_malformed == Line("data: ", Payload("text", NoObj))
L_detailLit == Line("data: ", Payload("detailLit", NoObj))
L_rawDetailLit == Line("", Payload("detailLit", NoObj))
L_detail == Line("data: ", Payload("json", DetailObj))
L_rawDetail == Line("", Payload("json", DetailObj))
L_hi == Line("data: ", Payload("json", TextFrame("c1", "m1", T_Hi)))
L_padHi == Line("data: ", Payload("json", TextFrame("c1", "m2", T_PadHi)))
L_emptyText == Line("data: ", Payload("json", TextFrame("c1", "m1", T_Empty)))
L_space == Line("data: ", Payload("json", TextFrame("c1", "m1", T_Space)))
L_noParts == Line("data: ", Payload("json", Obj("map", "m1", "map", "text", TRUE, << >>, "c1")))
L_noId == Line("data: ", Payload("json", TextFrame("c1", "absent", T_Hi)))
L_noConv == Line("data: ", Payload("json", TextFrame("absent", "m1", T_Hi)))
L_code == Line("data: ", Payload("json", Obj("map", "absent", "map", "code", TRUE, << T_Hi >>, "absent")))

Lines ==
    { L_blank, L_event, L_done, L_malformed, L_detailLit, L_rawDetailLit, L_detail,
      L_rawDetail, L_hi, L_padHi, L_emptyText, L_space, L_noParts, L_noId, L_noConv,
      L_code }

\* strings.Contains(line, `{"detail":}`)
ContainsDetail(line) == line.payload.kind = "detailLit"

\* json.Unmarshal of the line without its prefix into a map succeeded
Unmarshal(line) == line.payload.kind = "json"

checkFields(parsedLine) ==
    IF parsedLine.msg # "map" THEN FALSE
    ELSE IF parsedLine.content # "map" THEN FALSE
    ELSE IF ~parsedLine.isArr THEN FALSE
    ELSE IF Len(parsedLine.parts) = 0 THEN FALSE
    ELSE TRUE

ChatResponse(conv, parent, message) ==
    [ConversationID |-> conv, ParentID |-> parent, Message |-> message]

\* The body of the loop of startScan for one line; live is streamChannel # nil.
\*   "continue" : next line          "fatal" : return nil, error
\*   "break"    : leave the loop     "panic" : a type assertion failed
\*   "send"     : streamChannel <- frame     "append" : messages = append(...)
scanLine(line, live) ==
    IF (line.prefix = "" /\ line.payload.kind = "empty") \/ line.prefix = "event: "
    THEN [op |-> "continue", frame |-> ChatResponse("", "", << >>)]
    ELSE IF line.prefix # "data: "
    THEN [op |-> "continue", frame |-> ChatResponse("", "", << >>)]
    ELSE IF ContainsDetail(line)
    THEN [op |-> "fatal", frame |-> ChatResponse("", "", << >>)]
    ELSE IF line.payload.kind = "done"
    THEN [op |-> "break", frame |-> ChatResponse("", "", << >>)]
    ELSE IF ~Unmarshal(line) \/ ~checkFields(line.payload.obj)
    THEN [op |-> "continue", frame |-> ChatResponse("", "", << >>)]
    ELSE LET parsedLine == line.payload.obj
             message == parsedLine.parts[1]
             frame == ChatResponse(parsedLine.conv, parsedLine.id, TrimSpace(message))
         IN IF parsedLine.ctype = "text"
            THEN IF parsedLine.conv = "absent" \/ parsedLine.id = "absent"
                 THEN [op |-> "panic", frame |-> ChatResponse("", "", << >>)]
                 ELSE IF live /\ message # << >>
                      THEN [op |-> "send", frame |-> frame]
                      ELSE [op |-> "append", frame |-> frame]
            ELSE [op |-> "continue", frame |-> ChatResponse("", "", << >>)]

\* the first-line test of parseResponse: the scanner has a first line and it
\* holds {"detail":}
firstLineDetail(body) == Len(body) > 0 /\ ContainsDetail(body[1])

\* close(streamChannel) panics on the nil channel of the buffered mode
closePanics(live) == ~live

\* startScan without a channel, from line i on: how the call ends ("returned"
\* or "panic"), the list and the error it returns (the reason of the panic when
\* it panics), the lines it read
RECURSIVE startScan(_, _, _)
startScan(body, i, messages) ==
    IF i > Len(body)
    THEN [end |-> IF closePanics(FALSE) THEN "panic" ELSE "returned",
          msgs |-> messages, err |-> IF closePanics(FALSE) THEN "close of nil channel" ELSE "",
          read |-> Len(body)]
    ELSE LET r == scanLine(body[i], FALSE)
         IN CASE r.op = "continue" -> startScan(body, i + 1, messages)
              [] r.op = "append" -> startScan(body, i + 1, Append(messages, r.frame))
              [] r.op = "fatal" -> [end |-> "returned", msgs |-> << >>, err |-> "detail", read |-> i]
              [] r.op = "break" ->
                    [end |-> IF closePanics(FALSE) THEN "panic" ELSE "returned",
                     msgs |-> messages,
                     err |-> IF closePanics(FALSE) THEN "close of nil channel" ELSE "",
                     read |-> i]
              [] OTHER -> [end |-> "panic", msgs |-> messages, err |-> "type assertion", read |-> i]

(***************************************************************************)
(* State.                                                                  *)
(***************************************************************************)
VARIABLES
    conversations,   \* Client.conversations: map[string]Conversation
    engine,          \* Client.engine
    cfgInitMessage,  \* Client.initMessage (Config.InitMessage)
    ispaid,          \* Client.ispaid
    auth,            \* Client.auth: the Auth struct
    authmode,        \* Client.authmode
    cacheFile,       \* the file gpt-cache.json
    now,             \* the current time (time.Now())
    tokenSrc,        \* where auth.accessToken came from: config, cache, handshake
    credUse,         \* the last use of the bearer token: by Start or by a request
    startRet,        \* what the last call of Start returned
    asks,            \* number of Ask calls issued so far
    lastAsk,         \* what the last Ask call in ApiKeyMode did
    respBody,        \* resp.Body of the current access-token request: its lines
    scanned,         \* number of lines the bufio.Scanner has handed out
    bodyClosed,      \* number of calls of resp.Body.Close()
    chBuf,           \* the frames buffered in the channel of AskStream
    chClosed,        \* number of calls of close() on that channel
    received,        \* the frames the caller has received from the channel
    gpc,             \* the goroutine running startScan: none, scan, returned, panic
    gmessages,       \* the local messages of that goroutine
    gerr,            \* the error that goroutine returned
    call,            \* what the last access-token Ask or AskStream returned
    server,          \* the provider's answer to a conversation request
    crashed,         \* a panic has ended the program
    cfgAccessToken,  \* Config.AccessToken the client was constructed with
    login,           \* what the last call of Start did
    writers,         \* the clients running cacheAccessToken on the shared file
    flights,         \* the calls of GetAccessToken running on the one Auth
    runs,            \* the live decode runs of concurrent AskStream calls
    asking,          \* the concurrent calls of Ask in ApiKeyMode
    lastReset,       \* the last call of ResetConversation: its id and its error
    backing          \* the arrays behind the Messages slices of the stored conversations

convVars == << conversations, asks, lastAsk >>

authVars == << auth, authmode, ispaid, cacheFile, now, tokenSrc, credUse, startRet,
              cfgAccessToken, login, writers, flights >>

\* what the requests of a started client leave alone
loginVars == << cfgAccessToken, login, writers, flights >>

\* the state of the concurrent calls, which the other operations leave alone
concVars == << runs, asking, backing >>

decVars == << respBody, scanned, bodyClosed, chBuf, chClosed, received, gpc, gmessages,
             gerr, call, server >>

vars == << conversations, engine, cfgInitMessage, ispaid, auth, authmode, cacheFile,
           now, tokenSrc, credUse, startRet, asks, lastAsk, respBody, scanned,
           bodyClosed, chBuf, chClosed, received, gpc, gmessages, gerr, call, server,
           crashed, cfgAccessToken, login, writers, flights, runs, asking,
           lastReset, backing >>

\* reqs: the number of requests the call sent to the chat endpoint
NoAsk == [id |-> "", prompt |-> EmptyStr, created |-> FALSE, exceeded |-> FALSE,
          sent |-> <<>>, outcome |-> "none", reqs |-> 0]

NoFrame == ChatResponse("", "", << >>)

\* ret: "none" (no call yet), "frame" (a ChatResponse and a nil error), "channel"
\* (AskStream: the channel and a nil error), "error", "panic"
\* msgs: the list parseResponse returned to the caller
\* reqs: the number of HTTP requests the call issued
NoCall == [mode |-> "none", status |-> "", ret |-> "none", msgs |-> << >>,
           frame |-> NoFrame, err |-> "", reqs |-> 0]

\* branch: the credential Start went by: "none" (checkCredentials failed),
\* "api key", "access token", "password"; hs: the answers of the provider when
\* the handshake ran; reqs: the number of HTTP requests Start sent; stored:
\* cacheAccessToken wrote the file
NoLogin == [branch |-> "none", ran |-> FALSE, hs |-> HsBase, reqs |-> 0,
            formState |-> "", exchangeState |-> "", stored |-> FALSE]

\* no client is writing the cache file
NoWriters ==
    [w \in Sessions |-> [pc |-> "off", accessToken |-> "", expires |-> ZeroTime,
                         previousData |-> << >>]]

\* the goroutines calling Start on the one client
Callers == { 1, 2 }

\* no call of GetAccessToken is running
NoFlights == [p \in Callers |-> [pc |-> "off", state |-> "", sent |-> "", token |-> ""]]

\* the decode runs of AskStream calls in flight together
StreamIds == { 1, 2 }

\* no decode run: the call has not been made
NoRuns == [p \in StreamIds |-> [pc |-> "none", body |-> << >>, scanned |-> 0,
                                chBuf |-> << >>, chClosed |-> 0, received |-> << >>]]

\* no call of Ask is running; conversation is the local variable of the call,
\* appended the messages the call has appended to it
NoAsking == [p \in Callers |-> [pc |-> "idle", id |-> "", prompt |-> EmptyStr,
                                 conversation |-> EmptyConversation, appended |-> << >>]]

\* ResetConversation has not been called
NoReset == [id |-> "", err |-> ""]

\* no stored conversation, no array allocated
NoBacking == [of |-> << >>, arrays |-> << >>]

InitConc == runs = NoRuns /\ asking = NoAsking /\ lastReset = NoReset /\ backing = NoBacking

NoUse == [kind |-> "none", token |-> "", expires |-> ZeroTime, src |-> "none", at |-> ZeroTime]

(***************************************************************************)
(* client.go: NewClient                                                    *)
(***************************************************************************)
NewClientEngine(cfgEngine) == IF cfgEngine = "" THEN "gpt-3.5-turbo" ELSE cfgEngine

NewAuth(email, password, apiKey, accessToken, disableCache, sessionName) ==
    [email |-> email, password |-> password, authState |-> "", apiKey |-> apiKey,
     accessToken |-> accessToken, expires |-> ZeroTime, enableCache |-> ~disableCache,
     clientStarted |-> FALSE, sessionName |-> sessionName]

\* the Auth of a client on which Start has succeeded
Started(a) == [a EXCEPT !.clientStarted = TRUE]

\* no access-token request has been issued
InitDec ==
    /\ respBody = << >>
    /\ scanned = 0
    /\ bodyClosed = 0
    /\ chBuf = << >>
    /\ chClosed = 0
    /\ received = << >>
    /\ gpc = "none"
    /\ gmessages = << >>
    /\ gerr = ""
    /\ call = NoCall

\* an answer nobody asks for
NoAnswer == [status |-> "500", body |-> << >>]

InitConv ==
    /\ conversations = << >>
    /\ \E e \in EngineNames \cup { "" } : engine = NewClientEngine(e)
    /\ cfgInitMessage \in InitMessages
    /\ InitConc
    /\ InitDec
    /\ server = NoAnswer
    /\ ispaid = FALSE
    /\ auth = Started(NewAuth("", "", "K", "", TRUE, "s1"))
    /\ authmode = ApiKeyMode
    /\ cacheFile = NoFile
    /\ now = 1
    /\ tokenSrc = "none"
    /\ credUse = NoUse
    /\ startRet = ""
    /\ asks = 0
    /\ lastAsk = NoAsk
    /\ crashed = FALSE
    /\ cfgAccessToken = ""
    /\ login = [NoLogin EXCEPT !.branch = "api key"]
    /\ writers = NoWriters
    /\ flights = NoFlights

(***************************************************************************)
(* ask.go: Client.Ask in ApiKeyMode, with the outcome of askOpenAI.        *)
(***************************************************************************)
\* the conversation Ask works on after its create-or-append step
AskOpen(convs, cid, prompt, initMsg) ==
    IF cid \notin DOMAIN convs
    THEN initMessage(EmptyConversation,
                     Message("system", IF initMsg # EmptyStr THEN initMsg ELSE DEFAULT_INIT_MESSAGE))
    ELSE addMessage(convs[cid], Message("user", prompt))

\* the windowing step of Ask: limit1 is what the call of getEngineTokenLimit in
\* Ask returned, limit2 what the one in tokenizeMessage returned
AskWindow(c, limit1, limit2) ==
    IF getTokenCount(c) > limit1 THEN tokenizeMessage(c, limit2) ELSE c

Put(convs, cid, c) == [k \in DOMAIN convs \cup {cid} |-> IF k = cid THEN c ELSE convs[k]]

Ask(optId, prompt, outcome, reply) ==
    /\ ~crashed
    /\ asks < MaxAsks
    /\ auth.clientStarted
    /\ authmode = ApiKeyMode
    /\ LET cid == IF optId = "" THEN "default" ELSE optId
           opened == AskOpen(conversations, cid, prompt, cfgInitMessage)
       IN \E limit1 \in getEngineTokenLimit(engine), limit2 \in getEngineTokenLimit(engine) :
            LET conv == AskWindow(opened, limit1, limit2)
                ok == outcome = "ok"
                final == IF ok THEN addMessage(conv, Message("assistant", reply)) ELSE conv
            IN /\ conversations' = Put(conversations, cid, final)
               /\ lastAsk' = [id |-> cid, prompt |-> prompt,
                              created |-> cid \notin DOMAIN conversations,
                              exceeded |-> getTokenCount(opened) > limit1,
                              sent |-> conv.Messages, outcome |-> outcome,
                              \* the one c.httpx.Do of askOpenAI
                              reqs |-> 1]
               \* on an error askOpenAI returns a nil response, and the
               \* response.GetResponse() of the return statement dereferences it
               /\ crashed' = ~ok
    /\ asks' = asks + 1
    /\ UNCHANGED << engine, cfgInitMessage, lastReset, concVars >>
    /\ UNCHANGED authVars
    /\ UNCHANGED decVars

AskOutcomes == { "ok", "transport", "non200" }

SetEngine(e) ==
    /\ ~crashed
    /\ engine' = e
    /\ UNCHANGED << cfgInitMessage, lastReset, concVars, crashed >>
    /\ UNCHANGED convVars
    /\ UNCHANGED authVars
    /\ UNCHANGED decVars

\* ResetConversation deleting every conversation
ResetConversation_all(id) ==
    /\ ~crashed
    /\ IF id \in DOMAIN conversations
       THEN /\ conversations' = << >>
            /\ lastReset' = [id |-> id, err |-> ""]
       ELSE /\ lastReset' = [id |-> id, err |-> "not found"]
            /\ UNCHANGED conversations
    /\ UNCHANGED << engine, cfgInitMessage, concVars, asks, lastAsk, crashed >>
    /\ UNCHANGED authVars
    /\ UNCHANGED decVars

ResetConversation(id) ==
    /\ ~crashed
    /\ IF id \in DOMAIN conversations
       THEN /\ conversations' = [k \in DOMAIN conversations \ {id} |-> conversations[k]]
            /\ lastReset' = [id |-> id, err |-> ""]
       ELSE \* the error "conversation with id ... not found"
            /\ lastReset' = [id |-> id, err |-> "not found"]
            /\ UNCHANGED conversations
    /\ UNCHANGED << engine, cfgInitMessage, concVars, asks, lastAsk, crashed >>
    /\ UNCHANGED authVars
    /\ UNCHANGED decVars

ResetConversations ==
    /\ ~crashed
    /\ conversations' = << >>
    /\ UNCHANGED << engine, cfgInitMessage, lastReset, concVars, asks, lastAsk, crashed >>
    /\ UNCHANGED authVars
    /\ UNCHANGED decVars

NextConv ==
    \/ \E optId \in ConversationIDs, prompt \in Prompts, outcome \in AskOutcomes, reply \in Replies :
          Ask(optId, prompt, outcome, reply)
    \/ \E e \in EngineNames : SetEngine(e)
    \/ \E id \in { "default", "A" } : ResetConversation(id)
    \/ ResetConversations

SpecConv == InitConv /\ [][NextConv]_vars

(***************************************************************************)
(* Properties of the conversation store.                                   *)
(***************************************************************************)
\* the init message conversations of this client are created with
EffectiveInit == IF cfgInitMessage # EmptyStr THEN cfgInitMessage ELSE DEFAULT_INIT_MESSAGE

\* C1: after any sequence of Ask calls in ApiKeyMode, every stored conversation
\* has exactly one message of role "system", it is the first message, and its
\* content is the init message the conversation was created with.
C1_SystemMessageFirst ==
    \A id \in DOMAIN conversations :
        LET m == conversations[id].Messages
        IN /\ Len(m) >= 1
           /\ m[1] = Message("system", EffectiveInit)
           /\ \A i \in 2..Len(m) : m[i].Role # "system"

\* an Ask on an existing conversation collapsed the history and then appended
\* the reply
C1_Witness ==
    /\ lastAsk.exceeded
    /\ ~lastAsk.created
    /\ lastAsk.outcome = "ok"
    /\ lastAsk.id \in DOMAIN conversations
    /\ Len(conversations[lastAsk.id].Messages) = 3

\* C2: whenever the token count exceeds the budget during an Ask, the list sent
\* to the provider is the system message with the init text followed by one
\* user message with the prompt of that Ask, the first Ask on an id included.
C2_WindowIsInitAndPrompt ==
    lastAsk.exceeded =>
        lastAsk.sent = << Message("system", EffectiveInit), Message("user", lastAsk.prompt) >>

(***************************************************************************)
(* ask.go: Ask and AskStream in AccessTokenMode.                           *)
(***************************************************************************)
\* The answer of the provider to the conversation requests of one behaviour is
\* the variable server: its status code and the lines of its body.  The state
\* follows one response body at a time: a request is issued when the goroutine
\* of the previous one has ended.

\* the channel of AskStream: make(chan *ChatResponse, 60)
ChanCap == 60

Statuses == { "200", "500" }

Streams == UNION { [1..n -> Lines] : n \in 0..MaxLines }

\* setHeaders(req, c.auth.accessToken)
UseToken == [kind |-> "request", token |-> auth.accessToken, expires |-> auth.expires,
             src |-> tokenSrc, at |-> now]

\* askWithAccessToken: the whole call, the decoding of the body included
askWithAccessToken(status, body) ==
    /\ ~crashed
    /\ server = [status |-> status, body |-> body]
    /\ auth.clientStarted
    /\ authmode = AccessTokenMode
    /\ gpc # "scan"
    /\ credUse' = UseToken
    /\ respBody' = body
    /\ chBuf' = << >>
    /\ chClosed' = 0
    /\ received' = << >>
    /\ gpc' = "none"
    /\ gmessages' = << >>
    /\ gerr' = ""
    /\ IF status # "200"
       THEN \* ChatError{Message: body, Code: status}; the deferred Close runs
            /\ call' = [mode |-> "buffered", status |-> status, ret |-> "error",
                        msgs |-> << >>, frame |-> NoFrame, err |-> "status", reqs |-> 1]
            /\ scanned' = Len(body)
            /\ bodyClosed' = 1
            /\ crashed' = FALSE
       ELSE IF firstLineDetail(body)
       THEN \* parseResponse returns the error before startScan is entered
            /\ call' = [mode |-> "buffered", status |-> status, ret |-> "error",
                        msgs |-> << >>, frame |-> NoFrame, err |-> "detail", reqs |-> 1]
            /\ scanned' = 1
            /\ bodyClosed' = 1
            /\ crashed' = FALSE
       ELSE LET r == startScan(body, 2, << >>)
            IN /\ scanned' = r.read
               \* the deferred Close of startScan and the one of askWithAccessToken
               /\ bodyClosed' = 2
               /\ crashed' = (r.end = "panic")
               /\ call' =
                    IF r.end = "panic"
                    THEN [mode |-> "buffered", status |-> status, ret |-> "panic",
                          msgs |-> << >>, frame |-> NoFrame, err |-> r.err, reqs |-> 1]
                    ELSE IF r.err # ""
                    THEN [mode |-> "buffered", status |-> status, ret |-> "error",
                          msgs |-> << >>, frame |-> NoFrame, err |-> r.err, reqs |-> 1]
                    ELSE IF Len(r.msgs) > 0
                    THEN [mode |-> "buffered", status |-> status, ret |-> "frame",
                          msgs |-> r.msgs, frame |-> r.msgs[Len(r.msgs)], err |-> "",
                          reqs |-> 1]
                    ELSE [mode |-> "buffered", status |-> status, ret |-> "error",
                          msgs |-> r.msgs, frame |-> NoFrame, err |-> "status", reqs |-> 1]
    /\ UNCHANGED << conversations, engine, cfgInitMessage, lastReset, concVars, ispaid, auth, authmode,
                    cacheFile, now, tokenSrc, startRet, asks, lastAsk, server >>
    /\ UNCHANGED loginVars

\* AskStream: makes the channel, sends the request, and on a 200 response has
\* parseResponse look at the first line and start the goroutine
\* AskStream creating the default conversation as Ask in ApiKeyMode does
AskStream_recording(status, body) ==
    /\ ~crashed
    /\ server = [status |-> status, body |-> body]
    /\ auth.clientStarted
    /\ authmode = AccessTokenMode
    /\ gpc # "scan"
    /\ credUse' = UseToken
    /\ respBody' = body
    /\ chBuf' = << >>
    /\ chClosed' = 0
    /\ received' = << >>
    /\ gmessages' = << >>
    /\ gerr' = ""
    /\ bodyClosed' = 0
    /\ IF status # "200"
       THEN /\ call' = [mode |-> "live", status |-> status, ret |-> "error",
                        msgs |-> << >>, frame |-> NoFrame, err |-> "status", reqs |-> 1]
            /\ scanned' = 0
            /\ gpc' = "none"
       ELSE IF firstLineDetail(body)
       THEN /\ call' = [mode |-> "live", status |-> status, ret |-> "error",
                        msgs |-> << >>, frame |-> NoFrame, err |-> "detail", reqs |-> 1]
            /\ scanned' = 1
            /\ gpc' = "none"
       ELSE /\ call' = [mode |-> "live", status |-> status, ret |-> "channel",
                        msgs |-> << >>, frame |-> NoFrame, err |-> "", reqs |-> 1]
            /\ scanned' = IF Len(body) > 0 THEN 1 ELSE 0
            /\ gpc' = "scan"
    /\ conversations' = Put(conversations, "default",
                             initMessage(EmptyConversation, Message("system", DEFAULT_INIT_MESSAGE)))
    /\ UNCHANGED << engine, cfgInitMessage, lastReset, concVars, ispaid, auth, authmode,
                    cacheFile, now, tokenSrc, startRet, asks, lastAsk, server, crashed >>
    /\ UNCHANGED loginVars

AskStream(status, body) ==
    /\ ~crashed
    /\ server = [status |-> status, body |-> body]
    /\ auth.clientStarted
    /\ authmode = AccessTokenMode
    /\ gpc # "scan"
    /\ credUse' = UseToken
    /\ respBody' = body
    /\ chBuf' = << >>
    /\ chClosed' = 0
    /\ received' = << >>
    /\ gmessages' = << >>
    /\ gerr' = ""
    /\ bodyClosed' = 0
    /\ IF status # "200"
       THEN /\ call' = [mode |-> "live", status |-> status, ret |-> "error",
                        msgs |-> << >>, frame |-> NoFrame, err |-> "status", reqs |-> 1]
            /\ scanned' = 0
            /\ gpc' = "none"
       ELSE IF firstLineDetail(body)
       THEN /\ call' = [mode |-> "live", status |-> status, ret |-> "error",
                        msgs |-> << >>, frame |-> NoFrame, err |-> "detail", reqs |-> 1]
            /\ scanned' = 1
            /\ gpc' = "none"
       ELSE /\ call' = [mode |-> "live", status |-> status, ret |-> "channel",
                        msgs |-> << >>, frame |-> NoFrame, err |-> "", reqs |-> 1]
            /\ scanned' = IF Len(body) > 0 THEN 1 ELSE 0
            /\ gpc' = "scan"
    /\ UNCHANGED << conversations, engine, cfgInitMessage, lastReset, concVars, ispaid, auth, authmode,
                    cacheFile, now, tokenSrc, startRet, asks, lastAsk, server, crashed >>
    /\ UNCHANGED loginVars

\* the goroutine running startScan(scanner, streamChannel, respBody): one turn of
\* its loop, or the end of the loop
ScanStep ==
    /\ ~crashed
    /\ gpc = "scan"
    /\ IF scanned = Len(respBody)
       THEN \* scanner.Scan() is false: close(streamChannel), return, deferred Close
            /\ chClosed' = chClosed + 1
            /\ bodyClosed' = bodyClosed + 1
            /\ gpc' = "returned"
            /\ UNCHANGED << scanned, chBuf, gmessages, gerr, crashed >>
       ELSE LET r == scanLine(respBody[scanned + 1], TRUE)
            IN /\ scanned' = scanned + 1
               /\ CASE r.op = "continue" ->
                        UNCHANGED << chBuf, chClosed, bodyClosed, gpc, gmessages, gerr, crashed >>
                    [] r.op = "append" ->
                        /\ gmessages' = Append(gmessages, r.frame)
                        /\ UNCHANGED << chBuf, chClosed, bodyClosed, gpc, gerr, crashed >>
                    [] r.op = "send" ->
                        \* the send blocks while the channel is full
                        /\ Len(chBuf) < ChanCap
                        /\ chBuf' = Append(chBuf, r.frame)
                        /\ UNCHANGED << chClosed, bodyClosed, gpc, gmessages, gerr, crashed >>
                    [] r.op = "fatal" ->
                        /\ gerr' = "detail"
                        /\ gpc' = "returned"
                        /\ bodyClosed' = bodyClosed + 1
                        /\ UNCHANGED << chBuf, chClosed, gmessages, crashed >>
                    [] r.op = "break" ->
                        /\ chClosed' = chClosed + 1
                        /\ bodyClosed' = bodyClosed + 1
                        /\ gpc' = "returned"
                        /\ UNCHANGED << chBuf, gmessages, gerr, crashed >>
                    [] OTHER ->
                        \* panic: the deferred Close runs, the program ends
                        /\ bodyClosed' = bodyClosed + 1
                        /\ gpc' = "panic"
                        /\ gerr' = "type assertion"
                        /\ crashed' = TRUE
                        /\ UNCHANGED << chBuf, chClosed, gmessages >>
    /\ UNCHANGED << respBody, received, call, server >>
    /\ UNCHANGED << conversations, engine, cfgInitMessage, lastReset, concVars, asks, lastAsk >>
    /\ UNCHANGED authVars

\* a receive that takes the frame sent last
Receive_lifo ==
    /\ ~crashed
    /\ call.ret = "channel"
    /\ chBuf # << >>
    /\ received' = Append(received, chBuf[Len(chBuf)])
    /\ chBuf' = SubSeq(chBuf, 1, Len(chBuf) - 1)
    /\ UNCHANGED << respBody, scanned, bodyClosed, chClosed, gpc, gmessages, gerr, call,
                    server, crashed >>
    /\ UNCHANGED << conversations, engine, cfgInitMessage, lastReset, concVars, asks, lastAsk >>
    /\ UNCHANGED authVars

\* the caller of AskStream receives one frame from the channel
Receive ==
    /\ ~crashed
    /\ call.ret = "channel"
    /\ chBuf # << >>
    /\ received' = Append(received, Head(chBuf))
    /\ chBuf' = Tail(chBuf)
    /\ UNCHANGED << respBody, scanned, bodyClosed, chClosed, gpc, gmessages, gerr, call,
                    server, crashed >>
    /\ UNCHANGED << conversations, engine, cfgInitMessage, lastReset, concVars, asks, lastAsk >>
    /\ UNCHANGED authVars

\* a client started with the access token of its configuration
InitDecode ==
    /\ conversations = << >>
    /\ engine = "text-davinci-002-render-sha"
    /\ cfgInitMessage = EmptyStr
    /\ InitConc
    /\ ispaid = FALSE
    /\ auth = Started(NewAuth("", "", "", "Tc", TRUE, "s1"))
    /\ authmode = AccessTokenMode
    /\ cacheFile = NoFile
    /\ now = 1
    /\ tokenSrc = "config"
    /\ credUse = [NoUse EXCEPT !.kind = "start", !.token = "Tc", !.src = "config", !.at = 1]
    /\ startRet = ""
    /\ asks = 0
    /\ lastAsk = NoAsk
    /\ InitDec
    /\ server \in [status : Statuses, body : Streams]
    /\ crashed = FALSE
    /\ cfgAccessToken = "Tc"
    /\ login = [NoLogin EXCEPT !.branch = "access token"]
    /\ writers = NoWriters
    /\ flights = NoFlights

NextDecode ==
    \/ askWithAccessToken(server.status, server.body)
    \/ AskStream(server.status, server.body)
    \/ ScanStep
    \/ Receive

SpecDecode == InitDecode /\ [][NextDecode]_vars

(***************************************************************************)
(* client.go: Client.Start, with the answers of the identity provider and  *)
(* whether os.Create of the cache file succeeds.                           *)
(***************************************************************************)
FreeEngine(paid, e) == IF ~paid THEN "text-davinci-002-render-sha" ELSE e

StartUse(a, src) == [kind |-> "start", token |-> a.accessToken, expires |-> a.expires,
                     src |-> src, at |-> now]

Start(hs, createOK) ==
    /\ ~crashed
    /\ LET a1 == loadCachedAccessToken(auth, cacheFile)
           src1 == IF cacheHit(auth, cacheFile) THEN "cache" ELSE tokenSrc
       IN IF checkCredentials(a1) # ""
          THEN /\ auth' = a1
               /\ tokenSrc' = src1
               /\ startRet' = checkCredentials(a1)
               /\ login' = NoLogin
               /\ UNCHANGED << authmode, cacheFile, engine, credUse, crashed >>
          ELSE IF a1.apiKey # ""
          THEN /\ authmode' = ApiKeyMode
               /\ auth' = Started(a1)
               /\ tokenSrc' = src1
               /\ startRet' = ""
               /\ login' = [NoLogin EXCEPT !.branch = "api key"]
               /\ UNCHANGED << cacheFile, engine, credUse, crashed >>
          ELSE IF a1.accessToken # ""
          THEN /\ authmode' = AccessTokenMode
               /\ tokenSrc' = src1
               /\ login' = [NoLogin EXCEPT !.branch = "access token",
                                           !.stored = a1.enableCache /\ createOK]
               /\ IF a1.enableCache /\ ~createOK
                  THEN \* cacheAccessToken returned the error of os.Create
                       /\ auth' = a1
                       /\ startRet' = "cache"
                       /\ UNCHANGED << cacheFile, engine, credUse, crashed >>
                  ELSE /\ cacheFile' = IF a1.enableCache
                                       THEN cacheAccessToken(a1, cacheFile, createOK)
                                       ELSE cacheFile
                       /\ engine' = FreeEngine(ispaid, engine)
                       /\ auth' = Started(a1)
                       /\ credUse' = StartUse(a1, src1)
                       /\ startRet' = ""
                       /\ UNCHANGED crashed
          ELSE LET r == GetAccessToken(a1, src1, cacheFile, now, hs, createOK)
               IN /\ tokenSrc' = r.src
                  /\ cacheFile' = r.file
                  /\ login' = [branch |-> "password", ran |-> r.ran,
                               hs |-> IF r.ran THEN hs ELSE HsBase, reqs |-> r.reqs,
                               formState |-> r.formState, exchangeState |-> r.exchangeState,
                               stored |-> r.stored]
                  /\ IF r.err = "panic"
                     THEN /\ crashed' = TRUE
                          /\ auth' = r.auth
                          /\ startRet' = "panic"
                          /\ UNCHANGED << authmode, engine, credUse >>
                     ELSE IF r.err # ""
                     THEN /\ auth' = r.auth
                          /\ startRet' = r.err
                          /\ UNCHANGED << authmode, engine, credUse, crashed >>
                     ELSE /\ auth' = Started([r.auth EXCEPT !.accessToken = r.token])
                          /\ authmode' = AccessTokenMode
                          /\ engine' = FreeEngine(ispaid, engine)
                          /\ credUse' = StartUse([r.auth EXCEPT !.accessToken = r.token], r.src)
                          /\ startRet' = ""
                          /\ UNCHANGED crashed
    /\ UNCHANGED << conversations, cfgInitMessage, lastReset, concVars, ispaid, now, asks, lastAsk >>
    /\ UNCHANGED << cfgAccessToken, writers, flights >>
    /\ UNCHANGED decVars

\* Ask sending its request before it looks at clientStarted
AskNotStarted_afterRequest ==
    /\ ~crashed
    /\ ~auth.clientStarted
    /\ call' = [NoCall EXCEPT !.mode = "buffered", !.ret = "error",
                              !.err = "client is not started", !.reqs = 1]
    /\ credUse' = UseToken
    /\ UNCHANGED << respBody, scanned, bodyClosed, chBuf, chClosed, received, gpc,
                    gmessages, gerr, server, crashed >>
    /\ UNCHANGED << conversations, engine, cfgInitMessage, lastReset, concVars, asks, lastAsk >>
    /\ UNCHANGED << auth, authmode, ispaid, cacheFile, now, tokenSrc, startRet >>
    /\ UNCHANGED loginVars

\* Ask on a client that is not started: the error, before anything else
AskNotStarted ==
    /\ ~crashed
    /\ ~auth.clientStarted
    /\ call' = [NoCall EXCEPT !.mode = "buffered", !.ret = "error",
                              !.err = "client is not started"]
    /\ UNCHANGED << respBody, scanned, bodyClosed, chBuf, chClosed, received, gpc,
                    gmessages, gerr, server, crashed >>
    /\ UNCHANGED << conversations, engine, cfgInitMessage, lastReset, concVars, asks, lastAsk >>
    /\ UNCHANGED authVars

\* AskStream on a client that is not started: no channel is made
AskStreamNotStarted ==
    /\ ~crashed
    /\ ~auth.clientStarted
    /\ call' = [NoCall EXCEPT !.mode = "live", !.ret = "error",
                              !.err = "client is not started"]
    /\ UNCHANGED << respBody, scanned, bodyClosed, chBuf, chClosed, received, gpc,
                    gmessages, gerr, server, crashed >>
    /\ UNCHANGED << conversations, engine, cfgInitMessage, lastReset, concVars, asks, lastAsk >>
    /\ UNCHANGED authVars

\* time passes
Tick ==
    /\ ~crashed
    /\ now < MaxTime
    /\ now' = now + 1
    /\ UNCHANGED << conversations, engine, cfgInitMessage, lastReset, concVars, ispaid, auth, authmode, cacheFile,
                    tokenSrc, credUse, startRet, asks, lastAsk, crashed >>
    /\ UNCHANGED loginVars
    /\ UNCHANGED decVars

\* the cache files a client finds: none, an empty mapping, entries of s1 and of
\* s2 written by earlier runs (expired by now, or expiring later)
CacheFiles ==
    { NoFile, File(<< >>) }
    \cup { File(Encode([k \in {"s1"} |-> authCache("T1", e)])) : e \in { 1, 2 } }
    \cup { File(Encode([k \in {"s2"} |-> authCache("T2", 4)])) }
    \cup { File(Encode([k \in {"s1", "s2"} |->
                            IF k = "s1" THEN authCache("T1", 2) ELSE authCache("T2", 4)])) }

\* the answer the provider gives in the behaviours of the credential part: the
\* conversation endpoint refuses every request (the decoding of a 200 answer
\* is the matter of SpecDecode)
AuthAnswers == { NoAnswer }

\* NewClient(config, "s1"), before Start
InitAuth ==
    /\ conversations = << >>
    /\ engine = NewClientEngine("")
    /\ cfgInitMessage = EmptyStr
    /\ InitConc
    /\ \E email \in { "", "e" }, password \in { "", "pw" }, apiKey \in { "", "K" },
          accessToken \in { "", "Tc" }, disableCache \in BOOLEAN :
          /\ auth = NewAuth(email, password, apiKey, accessToken, disableCache, "s1")
          \* Config.IsPaid is read in the access-token branches of Start alone
          /\ ispaid \in IF apiKey = "" THEN BOOLEAN ELSE { FALSE }
          /\ tokenSrc = IF accessToken = "" THEN "none" ELSE "config"
          /\ cfgAccessToken = accessToken
    /\ authmode = ApiKeyMode
    /\ cacheFile \in CacheFiles
    /\ now = 1
    /\ credUse = NoUse
    /\ startRet = ""
    /\ asks = 0
    /\ lastAsk = NoAsk
    /\ InitDec
    /\ server \in AuthAnswers
    /\ crashed = FALSE
    /\ login = NoLogin
    /\ writers = NoWriters
    /\ flights = NoFlights

\* the inputs of Start: every handshake with a writable cache file, and the
\* successful handshake with os.Create failing
StartInputs ==
    { << hs, TRUE >> : hs \in Handshakes } \cup { << HsBase, FALSE >> }

NextAuth ==
    \/ \E in \in StartInputs : Start(in[1], in[2])
    \/ Tick
    \/ askWithAccessToken(server.status, server.body)
    \/ AskNotStarted
    \/ AskStreamNotStarted

SpecAuth == InitAuth /\ [][NextAuth]_vars

(***************************************************************************)
(* Properties of the credentials.                                          *)
(***************************************************************************)
\* C3: a bearer token that was loaded from the cache or minted by the handshake
\* is used (attached to a request, or taken by Start into AccessTokenMode) only
\* when its recorded expiry is strictly after the current time.
C3_NeverUsedPastExpiry ==
    credUse.src \in { "cache", "handshake" } => credUse.expires > credUse.at

(***************************************************************************)
(* Properties of the decoder.                                              *)
(***************************************************************************)
\* a data line carrying a text frame with its id and conversation id
IsTextFrame(line) ==
    /\ line.prefix = "data: "
    /\ line.payload.kind = "json"
    /\ checkFields(line.payload.obj)
    /\ line.payload.obj.ctype = "text"
    /\ line.payload.obj.id # "absent"
    /\ line.payload.obj.conv # "absent"

IsSentinel(line) == line.prefix = "data: " /\ line.payload.kind = "done"

\* a line holding the JSON object {"detail": ...}
IsDetail(line) == line.payload.kind = "json" /\ line.payload.obj.detail # "absent"

\* the frames the stream carries: its text frames up to the first sentinel
RECURSIVE FramesOf(_)
FramesOf(body) ==
    IF body = << >> \/ IsSentinel(Head(body)) THEN << >>
    ELSE IF IsTextFrame(Head(body))
         THEN << ChatResponse(Head(body).payload.obj.conv, Head(body).payload.obj.id,
                              Head(body).payload.obj.parts[1]) >> \o FramesOf(Tail(body))
         ELSE FramesOf(Tail(body))

\* the streams of C4: blank lines, event lines, malformed data lines, text frames
\* and a closing sentinel
PlainLines == { L_blank, L_event, L_malformed, L_hi }

IsPlainStream(body) ==
    /\ Len(body) >= 1
    /\ IsSentinel(body[Len(body)])
    /\ \A i \in 1..(Len(body) - 1) : body[i] \in PlainLines

\* C4: buffered decoding of a stream of blank lines, event lines, malformed
\* data lines and text frames closed by the sentinel returns, without error,
\* exactly the text frames before the sentinel, in stream order.
C4_BufferedDecodesFrames ==
    (call.mode = "buffered" /\ call.status = "200" /\ IsPlainStream(respBody)) =>
        /\ call.ret \notin { "panic" }
        /\ call.err \notin { "detail", "type assertion", "close of nil channel" }
        /\ call.msgs = FramesOf(respBody)

\* the frames the caller has been given: the returned list, the frames in the
\* channel and those received from it
Delivered ==
    { call.msgs[i] : i \in 1..Len(call.msgs) }
    \cup { chBuf[i] : i \in 1..Len(chBuf) }
    \cup { received[i] : i \in 1..Len(received) }

\* C5: when the first line of a 200 response holds a JSON object with a detail
\* key, the call returns the fatal error and no frame is delivered, in buffered
\* and in live mode.
C5_FirstLineDetailIsFatal ==
    (call.status = "200" /\ Len(respBody) >= 1 /\ IsDetail(respBody[1])) =>
        /\ call.ret = "error"
        /\ call.err = "detail"
        /\ Delivered = { }

\* the lines a decoder passes over before it reaches line i
BenignLines == { L_blank, L_event, L_malformed, L_hi }

DetailAt(body, i) ==
    /\ i \in 2..Len(body)
    /\ body[i] = L_detail
    /\ \A j \in 1..(i - 1) : body[j] \in BenignLines

\* the decode run of the last call is over
RunOver ==
    \/ call.mode = "buffered"
    \/ call.mode = "live" /\ call.status = "200" /\ call.ret = "error"
    \/ call.mode = "live" /\ gpc \in { "returned", "panic" }

\* C6: a data line with a detail object after the first line is fatal: no later
\* line is read, a buffered call returns the error and no frame, and a live call
\* makes the error observable to the caller of AskStream.
C6_MidStreamDetailIsFatal ==
    \A i \in 2..Len(respBody) :
        (call.status = "200" /\ RunOver /\ DetailAt(respBody, i)) =>
            /\ scanned = i
            /\ call.err = "detail"
            /\ call.msgs = << >>

\* a live decode run has ended by the end of the input, the sentinel or a fatal
\* detail error
LiveRunEnded ==
    /\ call.mode = "live"
    /\ call.status = "200"
    /\ \/ gpc = "returned"
       \/ call.ret = "error" /\ call.err = "detail"

\* C7: the channel of AskStream is closed exactly once on every way a live decode
\* run ends, and never twice.
C7_ChannelClosedOnce ==
    /\ chClosed <= 1
    /\ LiveRunEnded => chClosed = 1

\* C8: no frame with an empty Message is delivered, in the channel or in the
\* returned list.
C8_NoEmptyFrameDelivered ==
    \A f \in Delivered : f.Message # << >>

\* a data line that is a JSON object lacking a field the decoder reads
ShapeMismatch(line) ==
    /\ line.prefix = "data: "
    /\ line.payload.kind = "json"
    /\ \/ ~checkFields(line.payload.obj)
       \/ line.payload.obj.id = "absent"
       \/ line.payload.obj.conv = "absent"

\* C9: a data line that parses as JSON but lacks a field the decoder reads is
\* skipped: the decoder does not crash on it and returns no error for it.
C9_ShapeMismatchSkipped ==
    (scanned >= 1 /\ scanned <= Len(respBody) /\ ShapeMismatch(respBody[scanned])) =>
        /\ ~(call.ret = "panic" /\ call.err = "type assertion")
        /\ gpc # "panic"

\* C10: the response body is closed on every exit path of a decode, in both
\* modes.
C10_BodyClosedOnExit ==
    (call.status = "200" /\ RunOver) => bodyClosed >= 1

(***************************************************************************)
(* Properties of the cache file.                                           *)
(***************************************************************************)
\* the mapping the cache file holds (none when it is absent or unreadable)
Persisted(file) == IF file.exists /\ file.valid THEN Decode(file.data) ELSE << >>

\* C11: a write of the cache file by the client of session S, with no other
\* writer, leaves the mapping it held with the entry of S replaced by the
\* client's current token and expiry: every other session's entry is unchanged.
C11_StoreMergesEntry ==
    [][cacheFile' # cacheFile =>
         /\ cacheFile'.exists /\ cacheFile'.valid
         /\ DOMAIN Persisted(cacheFile') = DOMAIN Persisted(cacheFile) \cup {auth'.sessionName}
         /\ \A k \in DOMAIN Persisted(cacheFile') :
               Persisted(cacheFile')[k] =
                  IF k = auth'.sessionName
                  THEN authCache(auth'.accessToken, auth'.expires)
                  ELSE Persisted(cacheFile)[k]]_vars

\* the client of s1 has stored the token of its handshake next to the entry of s2
C11_Witness ==
    /\ cacheFile.exists /\ cacheFile.valid
    /\ DOMAIN Persisted(cacheFile) = { "s1", "s2" }
    /\ Persisted(cacheFile)["s1"].AccessToken = "Th"
    /\ Persisted(cacheFile)["s2"] = authCache("T2", 4)
    /\ login.ran

(***************************************************************************)
(* auth.go: cacheAccessToken run by two clients of one process that share  *)
(* gpt-cache.json, one client per session name.  Nothing orders the file   *)
(* operations of the two runs: each run is the read of the file, os.Create *)
(* (which truncates it) and the write of the encoder.                      *)
(***************************************************************************)
\* the Auth fields cacheAccessToken reads, for the client of session w
WriterAuth(w) ==
    [accessToken |-> writers[w].accessToken, expires |-> writers[w].expires,
     sessionName |-> w]

\* os.Stat, os.Open, Decode(&previousData), previousData[a.sessionName] = ...
CacheRead(w) ==
    /\ writers[w].pc = "idle"
    /\ writers' = [writers EXCEPT ![w].pc = "read",
                                  ![w].previousData = readPrevious(WriterAuth(w), cacheFile)]
    /\ UNCHANGED << auth, authmode, ispaid, cacheFile, now, tokenSrc, credUse, startRet,
                    cfgAccessToken, login, flights >>
    /\ UNCHANGED << conversations, engine, cfgInitMessage, lastReset, concVars, asks, lastAsk, crashed >>
    /\ UNCHANGED decVars

\* os.Create("gpt-cache.json"): the file is there and holds no bytes
CacheCreate(w) ==
    /\ writers[w].pc = "read"
    /\ writers' = [writers EXCEPT ![w].pc = "created"]
    /\ cacheFile' = Truncated
    /\ UNCHANGED << auth, authmode, ispaid, now, tokenSrc, credUse, startRet,
                    cfgAccessToken, login, flights >>
    /\ UNCHANGED << conversations, engine, cfgInitMessage, lastReset, concVars, asks, lastAsk, crashed >>
    /\ UNCHANGED decVars

\* json.NewEncoder(file).Encode(previousData): written from offset 0 of the
\* client's own descriptor, so the file starts with the mapping written last
CacheEncode(w) ==
    /\ writers[w].pc = "created"
    /\ writers' = [writers EXCEPT ![w].pc = "done"]
    /\ cacheFile' = File(Encode(writers[w].previousData))
    /\ UNCHANGED << auth, authmode, ispaid, now, tokenSrc, credUse, startRet,
                    cfgAccessToken, login, flights >>
    /\ UNCHANGED << conversations, engine, cfgInitMessage, lastReset, concVars, asks, lastAsk, crashed >>
    /\ UNCHANGED decVars

\* the token and expiry a client is about to store
WriterTokens == { "Tw" }
WriterExpiries == { 3, 4 }

\* two clients, each holding a token, about to call cacheAccessToken
InitCache ==
    /\ conversations = << >>
    /\ engine = NewClientEngine("")
    /\ cfgInitMessage = EmptyStr
    /\ InitConc
    /\ ispaid = FALSE
    /\ auth = NewAuth("", "", "", "Tw", FALSE, "s1")
    /\ authmode = AccessTokenMode
    /\ cacheFile \in CacheFiles
    /\ now = 1
    /\ tokenSrc = "config"
    /\ credUse = NoUse
    /\ startRet = ""
    /\ asks = 0
    /\ lastAsk = NoAsk
    /\ InitDec
    /\ server = NoAnswer
    /\ crashed = FALSE
    /\ cfgAccessToken = "Tw"
    /\ login = NoLogin
    /\ writers \in [Sessions -> [pc : { "idle" }, accessToken : WriterTokens,
                                 expires : WriterExpiries, previousData : { << >> }]]
    /\ flights = NoFlights

NextCache ==
    \E w \in Sessions : CacheRead(w) \/ CacheCreate(w) \/ CacheEncode(w)

SpecCache == InitCache /\ [][NextCache]_vars

\* C12: when the two clients have both finished cacheAccessToken, whatever the
\* interleaving of their file operations, the file holds the entry of each
\* session with that client's token and expiry.
C12_BothEntriesKept ==
    (\A w \in Sessions : writers[w].pc = "done") =>
        /\ cacheFile.exists /\ cacheFile.valid
        /\ \A w \in Sessions :
              /\ w \in DOMAIN Persisted(cacheFile)
              /\ Persisted(cacheFile)[w] =
                    authCache(writers[w].accessToken, writers[w].expires)

\* the last Start stored the client's token with cacheAccessToken
StartStored == startRet = "" /\ login.stored

\* C13: once Start has stored the client's token and expiry under its session
\* name, loadCachedAccessToken of a new client of that session yields that
\* token and that expiry; and loadCachedAccessToken of a client whose session
\* name has no entry in the file leaves its token and expiry as they were.
C13_CacheRoundTrip ==
    /\ StartStored =>
          LET fresh == NewAuth("", "", "", "", FALSE, auth.sessionName)
              loaded == loadCachedAccessToken(fresh, cacheFile)
          IN /\ loaded.accessToken = auth.accessToken
             /\ loaded.expires = auth.expires
    /\ \A s \in Sessions :
          s \notin DOMAIN Persisted(cacheFile) =>
              LET other == [auth EXCEPT !.sessionName = s]
              IN loadCachedAccessToken(other, cacheFile) = other

\* the token of a handshake was stored in a file that has no entry of s2
C13_Witness ==
    /\ StartStored
    /\ login.ran
    /\ auth.accessToken = "Th"
    /\ auth.expires > ZeroTime
    /\ DOMAIN Persisted(cacheFile) = { "s1" }

(***************************************************************************)
(* Properties of the handshake.                                            *)
(***************************************************************************)
\* the last Start ran the handshake and its authorize GET was answered 302
AuthorizeAnswered ==
    /\ login.branch = "password"
    /\ login.ran
    /\ login.hs.one = "ok"
    /\ login.hs.two[1] = "302"

\* C14: when the Location of the authorize redirect carries no state parameter
\* or one that differs from the state token stepOne recorded, the attempt
\* returns an error and stores no credential; a handshake that completes used
\* one state value in the form posts and in the token exchange.
C14_StateTokenChecked ==
    /\ (AuthorizeAnswered /\ (~login.hs.hasState \/ login.hs.echo # login.hs.state)) =>
          /\ startRet \notin { "", "panic" }
          /\ ~login.stored
          /\ auth.accessToken # login.hs.token
    /\ (AuthorizeAnswered /\ startRet = "") => login.formState = login.exchangeState

\* the last Start ran stepTwo, whose request i was the first one answered with
\* a status other than 302
FirstBadStatus(i) ==
    /\ login.branch = "password"
    /\ login.ran
    /\ login.hs.one = "ok"
    /\ \A j \in 1..(i - 1) : login.hs.two[j] = "302"
    /\ i > 1 => login.hs.hasState
    /\ login.hs.two[i] \in { "400", "500" }

\* C15: a request of stepTwo answered with a status other than 302 fails the
\* attempt with an error holding the URL and the status, except a 400 to one
\* of the two form posts, which fails with the invalid-credentials error.
C15_StatusClassified ==
    \A i \in 1..4 :
        FirstBadStatus(i) =>
            startRet = IF i \in { 2, 3 } /\ login.hs.two[i] = "400"
                       THEN "invalid credentials"
                       ELSE "bad status url+code"

\* the last Start ran the handshake up to the answer of the token exchange
ExchangeAnswered ==
    /\ login.branch = "password"
    /\ login.ran
    /\ login.exchangeState # ""
    /\ login.hs.three # "transport"

\* C16: when the answer of the token exchange cannot be decoded or has a
\* non-empty detail, Start returns an error, nothing is written to the cache
\* and the token of that answer is not taken as the client's credential.
C16_ExchangeDetailIsFatal ==
    (ExchangeAnswered /\ (login.hs.three = "decode" \/ login.hs.detail # "")) =>
        /\ startRet # ""
        /\ ~login.stored
        /\ credUse.src # "handshake"

(***************************************************************************)
(* auth.go: GetAccessToken called by goroutines that call Start on the one *)
(* client at the same time.  Nothing orders the calls: each is the check   *)
(* of the credential, stepOne, stepTwo, stepThree and the assignment of    *)
(* the result, all on the one Auth.                                        *)
(***************************************************************************)
\* the state token the provider hands out in the discovery answer of caller p
StateOf(p) == IF p = 1 THEN "stA" ELSE "stB"

\* the token the provider mints for the exchange of caller p
TokenOf(p) == IF p = 1 THEN "ThA" ELSE "ThB"

loginFrame ==
    << authmode, ispaid, now, tokenSrc, credUse, startRet, cfgAccessToken, login, writers,
       conversations, engine, cfgInitMessage, lastReset, concVars, asks, lastAsk, crashed >>

\* the validity test taking a token that expires now for a valid one
LoginCheck_notBefore(p) ==
    /\ flights[p].pc = "idle"
    /\ LET a1 == IF auth.enableCache THEN loadCachedAccessToken(auth, cacheFile) ELSE auth
       IN /\ auth' = a1
          /\ flights' =
               IF a1.accessToken # "" /\ a1.expires >= now
               THEN [flights EXCEPT ![p].pc = "done", ![p].token = a1.accessToken]
               ELSE [flights EXCEPT ![p].pc = "one"]
    /\ UNCHANGED cacheFile
    /\ UNCHANGED loginFrame
    /\ UNCHANGED decVars

\* lines 36-48: the cache is loaded, a valid credential is returned at once
LoginCheck(p) ==
    /\ flights[p].pc = "idle"
    /\ LET a1 == IF auth.enableCache THEN loadCachedAccessToken(auth, cacheFile) ELSE auth
       IN /\ auth' = a1
          /\ flights' =
               IF a1.accessToken # "" /\ a1.expires > now
               THEN [flights EXCEPT ![p].pc = "done", ![p].token = a1.accessToken]
               ELSE [flights EXCEPT ![p].pc = "one"]
    /\ UNCHANGED cacheFile
    /\ UNCHANGED loginFrame
    /\ UNCHANGED decVars

\* stepOne: a.authState = result.State
LoginStepOne(p) ==
    /\ flights[p].pc = "one"
    /\ auth' = [auth EXCEPT !.authState = StateOf(p)]
    /\ flights' = [flights EXCEPT ![p].pc = "two", ![p].state = StateOf(p)]
    /\ UNCHANGED cacheFile
    /\ UNCHANGED loginFrame
    /\ UNCHANGED decVars

\* stepTwo: the four requests, all answered 302
LoginStepTwo(p) ==
    /\ flights[p].pc = "two"
    /\ flights' = [flights EXCEPT ![p].pc = "three"]
    /\ UNCHANGED << auth, cacheFile >>
    /\ UNCHANGED loginFrame
    /\ UNCHANGED decVars

\* stepThree: the exchange is posted with `state=` + a.authState
LoginStepThree(p) ==
    /\ flights[p].pc = "three"
    /\ flights' = [flights EXCEPT ![p].pc = "store", ![p].sent = auth.authState,
                                  ![p].token = TokenOf(p)]
    /\ UNCHANGED << auth, cacheFile >>
    /\ UNCHANGED loginFrame
    /\ UNCHANGED decVars

\* lines 69-75: the result is assigned and cached
LoginStore(p) ==
    /\ flights[p].pc = "store"
    /\ auth' = [auth EXCEPT !.accessToken = flights[p].token, !.expires = now + 2]
    /\ cacheFile' = IF auth.enableCache THEN cacheAccessToken(auth', cacheFile, TRUE)
                    ELSE cacheFile
    /\ flights' = [flights EXCEPT ![p].pc = "done"]
    /\ UNCHANGED loginFrame
    /\ UNCHANGED decVars

\* the cache files GetAccessToken finds: those of CacheFiles, and the entry a
\* handshake answered without a token has left (no access_token key, a later
\* expiry)
LoginFiles ==
    CacheFiles \cup { File(Encode([k \in {"s1"} |-> authCache("", MaxTime + 1)])) }

\* a client with email and password, on which Start is called by two goroutines
InitLogin ==
    /\ conversations = << >>
    /\ engine = NewClientEngine("")
    /\ cfgInitMessage = EmptyStr
    /\ InitConc
    /\ ispaid = FALSE
    /\ \E disableCache \in BOOLEAN : auth = NewAuth("e", "pw", "", "", disableCache, "s1")
    /\ authmode = ApiKeyMode
    /\ cacheFile \in LoginFiles
    /\ now \in 1..MaxTime
    /\ tokenSrc = "none"
    /\ credUse = NoUse
    /\ startRet = ""
    /\ asks = 0
    /\ lastAsk = NoAsk
    /\ InitDec
    /\ server = NoAnswer
    /\ crashed = FALSE
    /\ cfgAccessToken = ""
    /\ login = NoLogin
    /\ writers = NoWriters
    /\ flights = [p \in Callers |-> [NoFlights[p] EXCEPT !.pc = "idle"]]

NextLogin ==
    \E p \in Callers :
        \/ LoginCheck(p)
        \/ LoginStepOne(p)
        \/ LoginStepTwo(p)
        \/ LoginStepThree(p)
        \/ LoginStore(p)

SpecLogin == InitLogin /\ [][NextLogin]_vars

\* C17: of the calls of GetAccessToken on one Auth, at most one is inside the
\* handshake at any time, and the state a call posts in its token exchange is
\* the state its own stepOne recorded.
C17_SingleFlight ==
    /\ Cardinality({ p \in Callers : flights[p].pc \in { "two", "three", "store" } }) <= 1
    /\ \A p \in Callers : flights[p].sent # "" => flights[p].sent = flights[p].state

(***************************************************************************)
(* Properties of Start.                                                    *)
(***************************************************************************)
\* C18: the credential Start goes by follows the precedence API key, then
\* email and password, then access token: with an API key the client runs in
\* ApiKeyMode; without one but with email and password Start authenticates
\* through GetAccessToken, whatever access token is configured or cached; the
\* access token alone is used only when neither of the others is set.
C18_CredentialPrecedence ==
    login.branch # "none" =>
        /\ auth.apiKey # "" => (login.branch = "api key" /\ authmode = ApiKeyMode)
        /\ (auth.apiKey = "" /\ auth.email # "" /\ auth.password # "") =>
              login.branch = "password"
        /\ login.branch = "access token" =>
              (auth.apiKey = "" /\ (auth.email = "" \/ auth.password = ""))

\* the client was constructed with no API key, no access token, and not both
\* email and password
NoUsableCredential ==
    /\ auth.apiKey = ""
    /\ cfgAccessToken = ""
    /\ auth.email = "" \/ auth.password = ""

\* C19: a client constructed with no usable credential is never started, and
\* its Start goes by no credential and sends no request, whatever the cache
\* file holds.
C19_NoCredentialNoStart ==
    NoUsableCredential =>
        /\ ~auth.clientStarted
        /\ login.branch = "none"
        /\ login.reqs = 0
        /\ credUse = NoUse

\* C20: on a client that is not started, a call of Ask or AskStream returns
\* the error "client is not started", sends no request and leaves the
\* conversations and everything else of the client as they were; and
\* clientStarted becomes true only in a call of Start that returns nil.
C20_NotStartedAskFails ==
    [][/\ (~auth.clientStarted /\ call' # call) =>
             /\ call'.ret = "error"
             /\ call'.err = "client is not started"
             /\ call'.reqs = 0
             /\ UNCHANGED << conversations, asks, lastAsk, respBody, scanned, chBuf, gpc >>
             /\ UNCHANGED authVars
       /\ (~auth.clientStarted /\ auth'.clientStarted) =>
             /\ startRet' = ""
             /\ login'.branch # "none"]_vars

\* a Start has failed, the client is not started, and an Ask on it was refused
C20_Witness ==
    /\ ~auth.clientStarted
    /\ startRet # ""
    /\ call.ret = "error"
    /\ call.err = "client is not started"

(***************************************************************************)
(* Properties of a failed request in API-key mode.                         *)
(***************************************************************************)
\* C21: an API-key Ask whose request fails, by a transport failure or by a
\* non-200 answer, returns the error to its caller and does not crash.
C21_AskFailureReturned ==
    lastAsk.outcome \in { "transport", "non200" } => ~crashed

(***************************************************************************)
(* The requests of one client: Start by the handshake or by the API key,   *)
(* then Ask and AskStream.                                                 *)
(***************************************************************************)
\* the answers of the conversation endpoint: a refusal, or a stream of one frame
RequestAnswers == { NoAnswer, [status |-> "200", body |-> << L_blank, L_hi, L_done >>] }

\* NewClient with an e-mail and a password, with or without an API key, the
\* cache disabled
InitRequests ==
    /\ conversations = << >>
    /\ engine = NewClientEngine("")
    /\ cfgInitMessage = EmptyStr
    /\ InitConc
    /\ \E apiKey \in { "", "K" } : auth = NewAuth("e", "pw", apiKey, "", TRUE, "s1")
    /\ ispaid = FALSE
    /\ tokenSrc = "none"
    /\ cfgAccessToken = ""
    /\ authmode = ApiKeyMode
    /\ cacheFile = NoFile
    /\ now = 1
    /\ credUse = NoUse
    /\ startRet = ""
    /\ asks = 0
    /\ lastAsk = NoAsk
    /\ InitDec
    /\ server \in RequestAnswers
    /\ crashed = FALSE
    /\ login = NoLogin
    /\ writers = NoWriters
    /\ flights = NoFlights

NextRequests ==
    \/ \E hs \in Handshakes : Start(hs, TRUE)
    \/ \E prompt \in Prompts, outcome \in AskOutcomes, reply \in Replies :
          Ask("", prompt, outcome, reply)
    \/ askWithAccessToken(server.status, server.body)
    \/ AskStream(server.status, server.body)
    \/ ScanStep
    \/ Receive

SpecRequests == InitRequests /\ [][NextRequests]_vars

\* the six requests of the handshake, in the order GetAccessToken sends them
HandshakeRequests ==
    << "discovery GET", "authorize GET", "identifier POST", "password POST",
       "redirect GET", "token POST" >>

\* whether the handshake goes on after the answer to its i-th request
Answered(hs, i) ==
    CASE i = 1 -> hs.one = "ok"
      [] i = 2 -> hs.two[1] = "302" /\ hs.hasState
      [] i \in 3..5 -> hs.two[i - 1] = "302"
      [] OTHER -> FALSE

\* the request the handshake ends with
LastRequest(hs) ==
    CHOOSE i \in 1..Len(HandshakeRequests) :
        /\ \A j \in 1..(i - 1) : Answered(hs, j)
        /\ ~Answered(hs, i)

\* C22: no layer retries: one Ask or AskStream call sends at most one request
\* to the chat endpoint, and one handshake sends each of its six requests at
\* most once: the requests up to the one it ends with, once each.
C22_NoRetry ==
    /\ lastAsk.reqs <= 1
    /\ call.reqs <= 1
    /\ login.reqs <= Len(HandshakeRequests)
    /\ login.ran => login.reqs = LastRequest(login.hs)

\* a streamed call answered with a stream, after a handshake of six requests
C22_Witness ==
    /\ login.ran
    /\ login.reqs = Len(HandshakeRequests)
    /\ call.mode = "live"
    /\ call.status = "200"
    /\ call.reqs = 1

(***************************************************************************)
(* A live decode run on a stream of more frames than the channel holds.    *)
(***************************************************************************)
\* a first line, n text frames with alternating message ids, the sentinel
LongStream(n) ==
    << L_blank >> \o [i \in 1..n |-> IF i % 2 = 1 THEN L_hi ELSE L_padHi] \o << L_done >>

LongAnswers ==
    { [status |-> "200", body |-> LongStream(ChanCap + n)] : n \in 1..MaxOverflow }

\* a client started with the access token of its configuration
StartedWithToken ==
    /\ conversations = << >>
    /\ engine = "text-davinci-002-render-sha"
    /\ cfgInitMessage = EmptyStr
    /\ InitConc
    /\ ispaid = FALSE
    /\ auth = Started(NewAuth("", "", "", "Tc", TRUE, "s1"))
    /\ authmode = AccessTokenMode
    /\ cacheFile = NoFile
    /\ now = 1
    /\ tokenSrc = "config"
    /\ credUse = [NoUse EXCEPT !.kind = "start", !.token = "Tc", !.src = "config", !.at = 1]
    /\ startRet = ""
    /\ asks = 0
    /\ lastAsk = NoAsk
    /\ InitDec
    /\ crashed = FALSE
    /\ cfgAccessToken = "Tc"
    /\ login = [NoLogin EXCEPT !.branch = "access token"]
    /\ writers = NoWriters
    /\ flights = NoFlights

\* the provider is about to answer with a long stream
InitBackpressure == StartedWithToken /\ server \in LongAnswers

NextBackpressure ==
    \/ AskStream(server.status, server.body)
    \/ ScanStep
    \/ Receive

SpecBackpressure == InitBackpressure /\ [][NextBackpressure]_vars

\* the frames startScan has sent to the channel once the scanner has handed
\* out n lines of the body, in the order of the stream
RECURSIVE SentFrames(_, _)
SentFrames(body, n) ==
    IF n <= 1 THEN << >>
    ELSE LET r == scanLine(body[n], TRUE)
         IN SentFrames(body, n - 1) \o (IF r.op = "send" THEN << r.frame >> ELSE << >>)

\* the goroutine of startScan is at a send that the full channel blocks
SendBlocked ==
    /\ gpc = "scan"
    /\ scanned < Len(respBody)
    /\ scanLine(respBody[scanned + 1], TRUE).op = "send"
    /\ Len(chBuf) = ChanCap

\* C23: in live mode the channel never holds more than its capacity of 60
\* frames, a send on the full channel waits and no frame is dropped or
\* overwritten: the frames received followed by the frames in the channel are
\* the frames the decoder has sent, in the order of the stream.
C23_Backpressure ==
    (call.mode = "live" /\ call.ret = "channel") =>
        /\ Len(chBuf) <= ChanCap
        /\ received \o chBuf = SentFrames(respBody, scanned)

\* the channel is full and the decoder waits with the next frame
C23_Witness ==
    /\ call.mode = "live"
    /\ SendBlocked
    /\ Len(SentFrames(respBody, scanned)) = ChanCap

(***************************************************************************)
(* Two AskStream calls in flight on one client, each with the response     *)
(* body, the scanner, the channel and the goroutine of its own.            *)
(***************************************************************************)
\* the conversation the provider answers call p in
ConvOf(p) == IF p = 1 THEN "c1" ELSE "c2"

RunLines(p) ==
    { Line("data: ", Payload("json", TextFrame(ConvOf(p), id, T_Hi))) : id \in { "m1", "m2" } }
    \cup { L_done }

\* the streams answering call p: a first line, then frames of its conversation
\* or the sentinel
RunBodies(p) == { << L_blank >> \o b : b \in [1..(MaxLines - 1) -> RunLines(p)] }

\* what the calls in flight leave alone
runFrame ==
    << conversations, engine, cfgInitMessage, lastReset, backing, asks, lastAsk, crashed, asking, authVars,
       decVars >>

\* AskStream of call p: the channel is made, the request is answered 200 with
\* body, parseResponse reads the first line and starts the goroutine
StreamOpen(p, body) ==
    /\ ~crashed
    /\ auth.clientStarted
    /\ authmode = AccessTokenMode
    /\ runs[p].pc = "none"
    /\ ~firstLineDetail(body)
    /\ runs' = [runs EXCEPT ![p] = [pc |-> "scan", body |-> body,
                                     scanned |-> IF Len(body) > 0 THEN 1 ELSE 0,
                                     chBuf |-> << >>, chClosed |-> 0, received |-> << >>]]
    /\ UNCHANGED runFrame

\* a goroutine sending to the channel of the first call
streamChannel_first(p) == 1

\* the channel the goroutine of call p sends to: the streamChannel argument
\* of its startScan, which is the channel its AskStream made
streamChannel(p) == p

\* the goroutine of call p: one turn of the loop of startScan, or its end
StreamScan(p) ==
    /\ ~crashed
    /\ runs[p].pc = "scan"
    /\ LET run == runs[p]
           ch == streamChannel(p)
       IN IF run.scanned = Len(run.body)
          THEN /\ runs' = [runs EXCEPT ![p].pc = "returned",
                                        ![ch].chClosed = runs[ch].chClosed + 1]
               /\ UNCHANGED crashed
          ELSE LET r == scanLine(run.body[run.scanned + 1], TRUE)
               IN CASE r.op \in { "continue", "append" } ->
                         /\ runs' = [runs EXCEPT ![p].scanned = run.scanned + 1]
                         /\ UNCHANGED crashed
                    [] r.op = "send" ->
                         /\ Len(runs[ch].chBuf) < ChanCap
                         /\ runs' = [runs EXCEPT ![p].scanned = run.scanned + 1,
                                                  ![ch].chBuf = Append(runs[ch].chBuf, r.frame)]
                         /\ UNCHANGED crashed
                    [] r.op = "fatal" ->
                         /\ runs' = [runs EXCEPT ![p].scanned = run.scanned + 1,
                                                  ![p].pc = "returned"]
                         /\ UNCHANGED crashed
                    [] r.op = "break" ->
                         /\ runs' = [runs EXCEPT ![p].scanned = run.scanned + 1,
                                                  ![p].pc = "returned",
                                                  ![ch].chClosed = runs[ch].chClosed + 1]
                         /\ UNCHANGED crashed
                    [] OTHER ->
                         /\ runs' = [runs EXCEPT ![p].scanned = run.scanned + 1,
                                                  ![p].pc = "panic"]
                         /\ crashed' = TRUE
    /\ UNCHANGED << conversations, engine, cfgInitMessage, lastReset, backing, asks, lastAsk, asking, authVars,
                    decVars >>

\* the caller of call p receives one frame from the channel it was returned
StreamReceive(p) ==
    /\ ~crashed
    /\ runs[p].pc # "none"
    /\ runs[p].chBuf # << >>
    /\ runs' = [runs EXCEPT ![p].received = Append(runs[p].received, Head(runs[p].chBuf)),
                             ![p].chBuf = Tail(runs[p].chBuf)]
    /\ UNCHANGED runFrame

InitStreams == StartedWithToken /\ server = NoAnswer

NextStreams ==
    \/ \E p \in StreamIds : \E body \in RunBodies(p) : StreamOpen(p, body)
    \/ \E p \in StreamIds : StreamScan(p)
    \/ \E p \in StreamIds : StreamReceive(p)

SpecStreams == InitStreams /\ [][NextStreams]_vars

\* C24: two live decode runs in flight together on independent streams never
\* put a frame into each other's channel: the frames received from the channel
\* of a call followed by the frames in it are the frames of that call's own
\* stream read so far, in its order, and none of them is of the other
\* conversation.
C24_NoInterleaving ==
    \A p \in StreamIds :
        /\ runs[p].received \o runs[p].chBuf = SentFrames(runs[p].body, runs[p].scanned)
        /\ \A i \in 1..Len(runs[p].chBuf) : runs[p].chBuf[i].ConversationID = ConvOf(p)
        /\ \A i \in 1..Len(runs[p].received) :
               runs[p].received[i].ConversationID = ConvOf(p)

\* both goroutines are running and each caller has received a frame
C24_Witness ==
    \A p \in StreamIds :
        /\ runs[p].pc = "scan"
        /\ runs[p].received # << >>
        /\ runs[p].chBuf # << >>

(***************************************************************************)
(* Two goroutines calling Ask in ApiKeyMode on one client and one          *)
(* conversation id.  Ask takes no lock: a call reads the map, works on its *)
(* local copy of the Conversation, and writes the copy back before and     *)
(* after the request.                                                      *)
(***************************************************************************)
\* what the calls of Ask leave alone
askFrame == << engine, cfgInitMessage, lastReset, backing, asks, lastAsk, runs, authVars, decVars >>

\* lines 101-134, up to the write: the id is resolved, the map is read, the
\* conversation is created or the prompt is appended to the local copy
AskRead(p, optId, prompt) ==
    /\ ~crashed
    /\ auth.clientStarted
    /\ authmode = ApiKeyMode
    /\ asking[p].pc = "idle"
    /\ LET cid == IF optId = "" THEN "default" ELSE optId
       IN asking' = [asking EXCEPT ![p] =
                        [pc |-> "opened", id |-> cid, prompt |-> prompt,
                         conversation |-> AskOpen(conversations, cid, prompt, cfgInitMessage),
                         appended |-> IF cid \in DOMAIN conversations
                                      THEN << Message("user", prompt) >> ELSE << >>]]
    /\ UNCHANGED << conversations, crashed >>
    /\ UNCHANGED askFrame

\* lines 127/134 and 137-145: the local copy is written to the map, windowed
\* and written again when over the budget, and the request is sent
AskWrite(p) ==
    /\ ~crashed
    /\ asking[p].pc = "opened"
    /\ \E limit1 \in getEngineTokenLimit(engine), limit2 \in getEngineTokenLimit(engine) :
          LET conv == AskWindow(asking[p].conversation, limit1, limit2)
          IN /\ conversations' = Put(conversations, asking[p].id, conv)
             /\ asking' = [asking EXCEPT ![p].pc = "sent", ![p].conversation = conv]
    /\ UNCHANGED crashed
    /\ UNCHANGED askFrame

\* lines 145-158: askOpenAI returns; on success the reply is appended to the
\* local copy and the copy is written to the map
AskReturn(p, outcome, reply) ==
    /\ ~crashed
    /\ asking[p].pc = "sent"
    /\ IF outcome = "ok"
       THEN LET final == addMessage(asking[p].conversation, Message("assistant", reply))
            IN /\ conversations' = Put(conversations, asking[p].id, final)
               /\ asking' = [asking EXCEPT
                                ![p].pc = "done", ![p].conversation = final,
                                ![p].appended = Append(asking[p].appended,
                                                       Message("assistant", reply))]
               /\ UNCHANGED crashed
       ELSE \* response.GetResponse() on the nil response
            /\ crashed' = TRUE
            /\ asking' = [asking EXCEPT ![p].pc = "panic"]
            /\ UNCHANGED conversations
    /\ UNCHANGED askFrame

InitAsks ==
    /\ InitConv
    /\ engine = NewClientEngine("")
    /\ cfgInitMessage = EmptyStr

NextAsks ==
    \/ \E p \in Callers, prompt \in Prompts : AskRead(p, "", prompt)
    \/ \E p \in Callers : AskWrite(p)
    \/ \E p \in Callers, outcome \in AskOutcomes, reply \in Replies :
          AskReturn(p, outcome, reply)

SpecAsks == InitAsks /\ [][NextAsks]_vars

\* the messages a conversation holds
Held(id) ==
    IF id \in DOMAIN conversations
    THEN { conversations[id].Messages[i] : i \in 1..Len(conversations[id].Messages) }
    ELSE { }

\* C25: the conversation store is used under exclusive access: whatever the
\* interleaving of two concurrent API-key Asks on one client and one
\* conversation id, no message a call has appended is lost: once a call has
\* returned, the stored conversation holds every message the call appended.
C25_NoAppendLost ==
    \A p \in Callers :
        asking[p].pc = "done" =>
            \A i \in 1..Len(asking[p].appended) : asking[p].appended[i] \in Held(asking[p].id)

(***************************************************************************)
(* Properties of the validity test of GetAccessToken.                      *)
(***************************************************************************)
\* the credential GetAccessToken looks at: the entry of the session in the
\* cache file when the cache is enabled and holds one, the fields in memory
\* otherwise
Candidate ==
    IF auth.enableCache /\ auth.sessionName \in DOMAIN Persisted(cacheFile)
    THEN Persisted(cacheFile)[auth.sessionName]
    ELSE authCache(auth.accessToken, auth.expires)

\* C26: GetAccessToken returns the cached or in-memory token without running
\* the handshake if and only if the token is non-empty and its expiry is
\* strictly after the current time; in every other case the handshake is
\* started.
C26_ValidTokenReturned ==
    [][\A p \in Callers :
          (flights[p].pc = "idle" /\ flights'[p].pc # "idle") =>
              IF Candidate.AccessToken # "" /\ Candidate.Expires > now
              THEN flights'[p].pc = "done" /\ flights'[p].token = Candidate.AccessToken
              ELSE flights'[p].pc = "one"]_vars

\* a call has returned the token of the cache file without a handshake step
C26_Witness ==
    \E p \in Callers :
        /\ flights[p].pc = "done"
        /\ flights[p].state = ""
        /\ flights[p].token = "T1"
        /\ auth.expires > now

(***************************************************************************)
(* Properties of the token budget and of the messages Ask sends.           *)
(***************************************************************************)
\* C27: getEngineTokenLimit is a deterministic function of the engine name:
\* 32000 for a name containing "gpt-4-32", 8000 for one containing "gpt-4-8",
\* 4000 for one containing "gpt-3.5-" or "text-davinci-" and for any other
\* name, and the same budget whenever it is called with the name.
C27_EngineLimitDeterministic ==
    /\ \A l1 \in getEngineTokenLimit(engine), l2 \in getEngineTokenLimit(engine) : l1 = l2
    /\ \A l \in getEngineTokenLimit(engine) :
          l = (IF Contains(engine, Gpt4_32Engine) THEN 32000
               ELSE IF Contains(engine, Gpt4_8Engine) THEN 8000
               ELSE 4000)

\* C28: every API-key Ask sends a message list whose last entry is the user
\* message holding the prompt of that call, the first Ask on a new
\* conversation id included.
C28_PromptIsLastSent ==
    lastAsk.outcome # "none" =>
        /\ lastAsk.sent # << >>
        /\ lastAsk.sent[Len(lastAsk.sent)] = Message("user", lastAsk.prompt)

\* C29: the windowing check runs after every append, the append of the
\* assistant reply included: once an Ask has returned, a conversation whose
\* token cost is over the budget holds exactly two stored entries.
C29_OverBudgetHoldsTwo ==
    (lastAsk.outcome = "ok" /\ lastAsk.exceeded /\ lastAsk.id \in DOMAIN conversations) =>
        Len(conversations[lastAsk.id].Messages) = 2

(***************************************************************************)
(* Properties of the order of the handshake.                               *)
(***************************************************************************)
\* a stage of the handshake of the last Start has failed
StageFailed ==
    \/ stepOne(login.hs) # ""
    \/ stepTwo(login.hs) # ""
    \/ stepThree(login.hs) # ""

\* C30: the stages of the handshake run in the order stepOne, stepTwo,
\* stepThree, each started only after the one before it succeeded; the token
\* and expiry are set and the cache is written only after stepThree succeeded:
\* a failure at any stage ends the acquisition with an error and no
\* credential stored.
C30_StagesInOrder ==
    (login.branch = "password" /\ login.ran) =>
        \* stepTwo is not started after a failed stepOne
        /\ stepOne(login.hs) # "" => login.reqs = 1
        \* stepThree is not started after a failed stepOne or stepTwo
        /\ (stepOne(login.hs) # "" \/ stepTwo(login.hs) # "") =>
              (login.reqs < Len(HandshakeRequests) /\ login.exchangeState = "")
        /\ StageFailed =>
              /\ startRet \notin { "", "panic" }
              /\ ~crashed
              /\ auth.accessToken = ""
              /\ ~login.stored

(***************************************************************************)
(* auth.go: the cookies of the handshake.                                  *)
(***************************************************************************)
\* _ref_cookies: resp.Cookies() of the authorize response, the session the
\* provider opened for the state it echoes
authorizeCookies(hs) == { << "auth0", hs.echo >> }

\* copyCookies(from, to): the cookies of the request afterwards
copyCookies(from, to) == to \cup from

\* the cookies the i-th request of the handshake carries: the three requests
\* stepTwo sends after the authorize GET are given _ref_cookies; stepThree
\* builds the token POST without cookies and sends it with http.DefaultClient,
\* which has no jar
handshakeCookies(hs, i) ==
    IF i \in 3..5 THEN copyCookies(authorizeCookies(hs), { }) ELSE { }

\* C31: the cookies captured from the authorize response are attached to
\* every later request of the handshake: the identifier POST, the password
\* POST, the final redirect GET and the token POST of stepThree.
C31_CookiesOnEveryRequest ==
    (login.branch = "password" /\ login.ran) =>
        \A i \in 3..login.reqs :
            authorizeCookies(login.hs) \subseteq handshakeCookies(login.hs, i)

\* the i-th request of the handshake failed in transport
TransportFailure(hs, i) ==
    CASE i = 1 -> hs.one = "transport"
      [] i \in 2..5 -> hs.two[i - 1] = "transport"
      [] OTHER -> hs.three = "transport"

\* C32: a transport failure of any request of the handshake, the authorize
\* GET included, is returned by GetAccessToken as an error: the call does not
\* crash on the response of the failed request.
C32_TransportFailureReturned ==
    (login.branch = "password" /\ login.ran
       /\ TransportFailure(login.hs, LastRequest(login.hs))) =>
        /\ startRet = "transport"
        /\ ~crashed

(***************************************************************************)
(* Properties of the buffered Ask and of the first line of the stream.     *)
(***************************************************************************)
\* C33: in access-token mode a non-streaming Ask answered 200 with a stream
\* of text frames returns the last frame of the stream, ParentID its message
\* id and ConversationID its conversation_id, and no error.
C33_BufferedReturnsLastFrame ==
    (call.mode = "buffered" /\ call.status = "200" /\ IsPlainStream(respBody)
       /\ FramesOf(Tail(respBody)) # << >>) =>
        LET frames == FramesOf(Tail(respBody))
            last == frames[Len(frames)]
        IN /\ call.ret = "frame"
           /\ call.frame = ChatResponse(last.ConversationID, last.ParentID,
                                        TrimSpace(last.Message))

(***************************************************************************)
(* Properties of the life of a conversation.                               *)
(***************************************************************************)
\* the store without the conversation id
Without(convs, id) == [k \in DOMAIN convs \ {id} |-> convs[k]]

\* C34: a conversation is created by the first Ask that names its id and
\* leaves the store only through ResetConversation(id) or ResetConversations:
\* an Ask removes no id and leaves its own id in the store; ResetConversation
\* on an absent id returns an error and leaves the store unchanged, and on a
\* present id removes exactly that id.
C34_DestroyedByResetOnly ==
    [][/\ asks' # asks =>
            /\ DOMAIN conversations \subseteq DOMAIN conversations'
            /\ lastAsk'.id \in DOMAIN conversations'
       /\ lastReset' # lastReset =>
            IF lastReset'.id \in DOMAIN conversations
            THEN /\ lastReset'.err = ""
                 /\ conversations' = Without(conversations, lastReset'.id)
            ELSE /\ lastReset'.err = "not found"
                 /\ conversations' = conversations
       /\ \A id \in DOMAIN conversations \ DOMAIN conversations' :
            /\ asks' = asks
            /\ \/ conversations' = << >>
               \/ /\ lastReset' = [id |-> id, err |-> ""]
                  /\ conversations' = Without(conversations, id)]_vars

\* conversation A was reset and the default conversation is still stored
C34_Witness ==
    /\ lastReset = [id |-> "A", err |-> ""]
    /\ DOMAIN conversations = { "default" }
    /\ lastAsk.id = "default"

\* C36: the decoder loses no valid frame: once a live decode run on a stream
\* of blank lines, event lines, malformed lines and text frames closed by the
\* sentinel has ended, every text frame before the sentinel has been
\* delivered, the one on the first line of the body included.
C36_NoFrameLost ==
    (call.mode = "live" /\ call.ret = "channel" /\ gpc = "returned"
       /\ IsPlainStream(respBody)) =>
        received \o chBuf = FramesOf(respBody)

(***************************************************************************)
(* Termination of the live decode run: the goroutine of startScan is       *)
(* scheduled as long as it can take a step, and the consumer ranges over   *)
(* the channel, so it receives whenever a frame is queued.                 *)
(***************************************************************************)
SpecDecodeFair ==
    InitDecode /\ [][NextDecode]_vars /\ WF_vars(ScanStep) /\ WF_vars(Receive)

\* C35: live-mode decoding terminates: on every finite stream, with a
\* consumer that keeps receiving, the decoding goroutine eventually closes
\* the channel and the response body.
C35_LiveDecodeTerminates ==
    (gpc = "scan") ~> (chClosed >= 1 /\ bodyClosed >= 1)

(***************************************************************************)
(* Conversations that share an array.  Conversation.Messages is a slice:   *)
(* a stored Conversation holds a pointer to an array, a length and a       *)
(* capacity.  GetConversation copies the struct and not the array, so a    *)
(* conversation put back under another id by SetConversation shares its    *)
(* array with the original; append writes into the array while the         *)
(* capacity lasts.  `conversations` stays what a reader of the map sees:   *)
(* the first len cells of the array of each id.                            *)
(***************************************************************************)
MaxSharedAsks == 5

\* the nil slice of the zero Conversation{}
NilSlice == [arr |-> 0, len |-> 0]

capOf(arrays, s) == IF s.arr = 0 THEN 0 ELSE arrays[s.arr].cap

elemsOf(arrays, s) == IF s.arr = 0 THEN << >> ELSE SubSeq(arrays[s.arr].cells, 1, s.len)

\* the capacity of the array append allocates when one of capacity cap is
\* full: the runtime doubles the capacity of a small slice
growCap(cap) == IF cap = 0 THEN 1 ELSE 2 * cap

newArray(arrays) == CHOOSE a \in 1..(Cardinality(DOMAIN arrays) + 1) : a \notin DOMAIN arrays

\* append(s, m): the cell after the last is written in place when the
\* capacity allows it, else the elements move to a new array
sliceAppend(arrays, s, m) ==
    IF s.len < capOf(arrays, s)
    THEN LET cells == arrays[s.arr].cells
         IN [arrays |-> [arrays EXCEPT ![s.arr].cells =
                             SubSeq(cells, 1, s.len) \o << m >> \o SubSeq(cells, s.len + 2, Len(cells))],
             slice |-> [arr |-> s.arr, len |-> s.len + 1]]
    ELSE LET a == newArray(arrays)
         IN [arrays |-> (a :> [cap |-> growCap(capOf(arrays, s)),
                               cells |-> elemsOf(arrays, s) \o << m >>]) @@ arrays,
             slice |-> [arr |-> a, len |-> s.len + 1]]

\* the composite literal []Message{...}: a new array of exactly these cells
sliceLiteral(arrays, msgs) ==
    LET a == newArray(arrays)
    IN [arrays |-> (a :> [cap |-> Len(msgs), cells |-> msgs]) @@ arrays,
        slice |-> [arr |-> a, len |-> Len(msgs)]]

\* the arrays some stored conversation still points to
liveArrays(of, arrays) == [a \in { of[k] : k \in DOMAIN of } |-> arrays[a]]

\* Client.Ask in ApiKeyMode on conversations whose slices may share an array
AskShared(optId, prompt, outcome, reply) ==
    /\ ~crashed
    /\ asks < MaxSharedAsks
    /\ auth.clientStarted
    /\ authmode = ApiKeyMode
    /\ LET cid == IF optId = "" THEN "default" ELSE optId
           opened == AskOpen(conversations, cid, prompt, cfgInitMessage)
           s0 == IF cid \notin DOMAIN conversations
                 THEN NilSlice
                 ELSE [arr |-> backing.of[cid], len |-> Len(conversations[cid].Messages)]
           \* initMessage or addMessage: append(c.Messages, m)
           a1 == sliceAppend(backing.arrays, s0, opened.Messages[Len(opened.Messages)])
       IN \E limit1 \in getEngineTokenLimit(engine), limit2 \in getEngineTokenLimit(engine) :
            LET conv == AskWindow(opened, limit1, limit2)
                a2 == IF conv.Messages # opened.Messages
                      THEN sliceLiteral(a1.arrays, conv.Messages)
                      ELSE a1
                ok == outcome = "ok"
                final == IF ok THEN addMessage(conv, Message("assistant", reply)) ELSE conv
                a3 == IF ok
                      THEN sliceAppend(a2.arrays, a2.slice, Message("assistant", reply))
                      ELSE a2
                of == Put(backing.of, cid, a3.slice.arr)
            IN /\ backing' = [of |-> of, arrays |-> liveArrays(of, a3.arrays)]
               /\ conversations' =
                      [k \in DOMAIN conversations \cup {cid} |->
                         IF k = cid
                         THEN final
                         ELSE [conversations[k] EXCEPT !.Messages =
                                  SubSeq(a3.arrays[backing.of[k]].cells, 1, Len(@))]]
               /\ lastAsk' = [id |-> cid, prompt |-> prompt,
                              created |-> cid \notin DOMAIN conversations,
                              exceeded |-> getTokenCount(opened) > limit1,
                              sent |-> conv.Messages, outcome |-> outcome,
                              reqs |-> 1]
               /\ crashed' = ~ok
    /\ asks' = asks + 1
    /\ UNCHANGED << engine, cfgInitMessage, lastReset, runs, asking >>
    /\ UNCHANGED authVars
    /\ UNCHANGED decVars

\* SetConversation(to, *conv) with conv what GetConversation(from) returned:
\* the struct is copied, the array of its Messages is not
SetConversation(to, from) ==
    /\ ~crashed
    /\ from \in DOMAIN conversations
    /\ conversations' = Put(conversations, to, conversations[from])
    /\ LET of == Put(backing.of, to, backing.of[from])
       IN backing' = [of |-> of, arrays |-> liveArrays(of, backing.arrays)]
    /\ UNCHANGED << engine, cfgInitMessage, lastReset, runs, asking, asks, lastAsk, crashed >>
    /\ UNCHANGED authVars
    /\ UNCHANGED decVars

NextShared ==
    \/ \E optId \in ConversationIDs, prompt \in Prompts, outcome \in AskOutcomes :
          AskShared(optId, prompt, outcome, Str("r1", 2))
    \/ \E to \in { "default", "A" }, from \in { "default", "A" } : SetConversation(to, from)

\* a started ApiKeyMode client with the default engine, its init message unset
\* or over the budget of that engine
InitShared ==
    /\ InitConv
    /\ engine = NewClientEngine("")
    /\ cfgInitMessage \in { EmptyStr, Str("init16004", 16004) }

SpecShared == InitShared /\ [][NextShared]_vars

\* what a reader of the map sees of id k is the first cells of its array
StoredView ==
    \A k \in DOMAIN conversations :
        /\ k \in DOMAIN backing.of
        /\ conversations[k].Messages =
              SubSeq(backing.arrays[backing.of[k]].cells, 1, Len(conversations[k].Messages))

\* C37: an Ask in ApiKeyMode on one conversation id leaves the stored
\* conversation of every other id as it was, whether the request succeeds or
\* fails and whether or not the conversation is collapsed.
C37_OtherIdsUntouched ==
    [][asks' # asks =>
         \A id \in DOMAIN conversations \ { lastAsk'.id } :
             /\ id \in DOMAIN conversations'
             /\ conversations'[id] = conversations[id]]_vars

(***************************************************************************)
(* The conversation store of a client in AccessTokenMode.                  *)
(***************************************************************************)
\* the client of InitDecode after SetConversation("A", conv), conv a
\* conversation holding its system message
InitTokenStore ==
    /\ \E server0 \in [status : Statuses, body : Streams] :
          /\ server = server0
          /\ credUse = [NoUse EXCEPT !.kind = "start", !.token = "Tc", !.src = "config", !.at = 1]
    /\ conversations =
          ("A" :> initMessage(EmptyConversation, Message("system", DEFAULT_INIT_MESSAGE)))
    /\ backing = [of |-> ("A" :> 1),
                  arrays |-> (1 :> [cap |-> 1,
                                    cells |-> << Message("system", DEFAULT_INIT_MESSAGE) >>])]
    /\ runs = NoRuns /\ asking = NoAsking /\ lastReset = NoReset
    /\ engine = "text-davinci-002-render-sha"
    /\ cfgInitMessage = EmptyStr
    /\ ispaid = FALSE
    /\ auth = Started(NewAuth("", "", "", "Tc", TRUE, "s1"))
    /\ authmode = AccessTokenMode
    /\ cacheFile = NoFile
    /\ now = 1
    /\ tokenSrc = "config"
    /\ startRet = ""
    /\ asks = 0
    /\ lastAsk = NoAsk
    /\ InitDec
    /\ crashed = FALSE
    /\ cfgAccessToken = "Tc"
    /\ login = [NoLogin EXCEPT !.branch = "access token"]
    /\ writers = NoWriters
    /\ flights = NoFlights

SpecTokenStore == InitTokenStore /\ [][NextDecode]_vars

\* C38: in AccessTokenMode no step of Ask or of AskStream, the decoding
\* goroutine and the receives of the caller included, changes the
\* conversation store: the map and the histories in it stay what they were,
\* whatever the request returns.
C38_StoreUntouched ==
    [][conversations' = conversations /\ backing' = backing]_vars

\* a live call has run to its end, its frames received, with a conversation
\* in the store
C38_Witness ==
    /\ DOMAIN conversations = { "A" }
    /\ call.mode = "live"
    /\ call.ret = "channel"
    /\ gpc = "returned"
    /\ received # << >>

(***************************************************************************)
(* The cache file of a client constructed with DisableCache.               *)
(***************************************************************************)
\* C39: with DisableCache set no operation reads or writes the cache file:
\* the token of the client never comes from the file, Start and
\* GetAccessToken store nothing in it, and a configured access token is the
\* token Start goes by and the requests send.
C39_DisabledCacheUnused ==
    ~auth.enableCache =>
        /\ tokenSrc # "cache"
        /\ ~login.stored
        /\ (cfgAccessToken # "" /\ credUse.kind # "none") => credUse.token = cfgAccessToken

(***************************************************************************)
(* The windowing decision over the life of a conversation.                 *)
(***************************************************************************)
\* C40: whether an Ask collapses its conversation is decided by the length of
\* the init message and by the engine alone, so that under one engine the
\* conversation is collapsed on every Ask or on none; and an Ask on a stored
\* conversation whose init message is within the budget keeps the whole
\* history and appends to it: the user message, and the assistant message
\* when the request succeeded.
C40_WindowingByInitAlone ==
    [][asks' = asks + 1 =>
         LET id == lastAsk'.id
             tokens == conversations'[id].InitMessage.len \div 4
             old == IF id \in DOMAIN conversations THEN conversations[id].Messages ELSE << >>
             new == conversations'[id].Messages
         IN /\ \A limit \in getEngineTokenLimit(engine) : lastAsk'.exceeded = (tokens > limit)
            /\ (id \in DOMAIN conversations /\ ~lastAsk'.exceeded) =>
                  /\ Len(new) = Len(old) + (IF lastAsk'.outcome = "ok" THEN 2 ELSE 1)
                  /\ SubSeq(new, 1, Len(old)) = old
                  /\ new[Len(old) + 1] = Message("user", lastAsk'.prompt)
                  /\ lastAsk'.outcome = "ok" => new[Len(new)].Role = "assistant"]_vars
====
